---- MODULE Spec2Model ----
(***************************************************************************)
(* Frame relay of NetherMoon/SmartGlasses.                                 *)
(* Datagram (low-latency) mode:                                            *)
(*   src/computer_server_lowlatency.py  (the computer: receive, process,   *)
(*                                       reply)                            *)
(*   src/pi_client_lowlatency.py        (the Pi: capture, send, receive)   *)
(* Stream mode:                                                            *)
(*   src/computer_server.py             (the computer, with the audio      *)
(*                                       thread that sets the mode)        *)
(*   src/pi_client.py                   (the Pi)                           *)
(* Byte strings are sequences of integers 0..255.  A Python dict is a      *)
(* function whose DOMAIN is the set of its keys.                           *)
(***************************************************************************)
EXTENDS Integers, Sequences, FiniteSets, TLC

VARIABLES
    running,        \* the programs that are up: a subset of {"server", "client",
                    \* "stream_server", "stream_client"}
    current_mode,   \* computer_server_lowlatency.py:19, computer_server.py:29
    kb_alive,       \* keyboard_control's while loop has not left (line 109)
    srv_buffer,     \* main's buffer (line 154): frame_id -> chunk_id -> bytes
    frame_times,    \* main's deque(maxlen=30) (line 155)
    sent,           \* datagrams the server's last loop iteration gave to sendto
    cli_buffer,     \* receive_frames' buffer (pi_client_lowlatency.py:52)
    latest_frame,   \* pi_client_lowlatency.py:42
    frame_id,       \* the Pi's frame counter (pi_client_lowlatency.py:164)
    net_up,         \* datagrams in flight Pi -> computer
    net_down,       \* datagrams in flight computer -> Pi
    rx,             \* what the last receive-loop iteration did (observation)
    history,        \* SpecRoundTrip: payloads sent, arrival order, frames emitted
    steps           \* receive-loop iterations so far (logical clock)

\* stream mode: computer_server.py main and pi_client.py main loop
VARIABLES
    ss_pc,          \* computer_server.py main: "accept" (255), "recv_size" (265),
                    \* "recv_body" (276), "process" (281-297), "exited"
    ss_data,        \* main's data (258)
    ss_msg_size,    \* main's msg_size (272)
    sc_pc,          \* pi_client.py loop: "send" (155-164), "recv_size" (168),
                    \* "recv_body" (177), "decode" (182-186), "stopped"
    sc_size_data,   \* size_data (166)
    sc_msg_size,    \* packed_msg_size (173)
    sc_frame_data,  \* frame_data (175)
    c2s,            \* bytes written Pi -> computer and not yet read
    s2c,            \* bytes written computer -> Pi and not yet read
    srv_end,        \* the computer's end of the connection: "none", "pending"
                    \* (in the listen backlog), "open", "closed"
    cli_end,        \* the Pi's end of the connection: "none", "open", "closed"
    waiting,        \* further connections in the listen backlog (listen(1))
    open_socks,     \* sockets created and not yet close()d
    st              \* observation of the stream programs (what was handed to
                    \* pickle.loads, frames and replies in order, counters)

dgramVars == <<running, current_mode, kb_alive, srv_buffer, frame_times, sent,
               cli_buffer, latest_frame, frame_id, net_up, net_down, rx,
               history, steps>>

\* the mode lock at statement granularity (SpecMode): process_frame and the
\* thread that sets the mode (keyboard_control, audio_server_thread)
VARIABLES
    mode_lock,      \* mode_lock: "free" or the thread that holds it
    pf_pc,          \* the main thread: "start", "recv", "acquire", "locked",
                    \* "transform"
    pf_mode,        \* process_frame's local mode
    ctl_pc,         \* the control thread: "wait", "acquire", "locked",
                    \* "written", "reply", "done"
    ctl_cmd,        \* the key read by input(), or new_mode of the audio thread
    ml              \* observation: last completed set, last access, last input

\* one call of send_frame_udp with sendto failures (SpecSend)
VARIABLES
    tx,             \* observation of the last call of send_frame_udp
    pi_main         \* pi_client_lowlatency.py main loop: "loop" or "exited"

\* the FPS log of computer_server_lowlatency.py main (SpecMetrics)
VARIABLES
    last_fps_print, \* main's last_fps_print (156, 202)
    fps             \* observation: iterations so far, what the last one logged

streamVars == <<ss_pc, ss_data, ss_msg_size, sc_pc, sc_size_data, sc_msg_size,
                sc_frame_data, c2s, s2c, srv_end, cli_end, waiting, open_socks,
                st>>

\* the variables the datagram actions leave alone
lockVars == <<mode_lock, pf_pc, pf_mode, ctl_pc, ctl_cmd, ml>>

sendVars == <<tx, pi_main>>

metricVars == <<last_fps_print, fps>>

extVars == <<streamVars, lockVars, sendVars, metricVars>>

\* the variables the stream actions leave alone
nonStreamVars == <<dgramVars, lockVars, sendVars, metricVars>>

vars == <<dgramVars, extVars>>

----------------------------------------------------------------------------
(* Bounds of the model *)

\* receive-loop iterations explored in Spec
MaxSteps == 3
\* chunk size ceiling; the source sets 60000 (computer_server_lowlatency.py:81,
\* pi_client_lowlatency.py:103), scaled down so that payloads of one to three
\* chunks are enumerable
MAX_CHUNK == 2
\* longest payload a sender is given in SpecRoundTrip
MaxLen == 5
\* datagrams the network delivers once more in SpecDup
MaxDups == 1

(* Program constants *)

\* struct '!IHHI' is 12 bytes; the receivers test len(data) < 12
HEADER_LEN == 12
\* frame_id = (frame_id + 1) % 65536
ID_MOD == 65536
\* old_frames = [fid for fid in buffer if fid < frame_id - 5]
SERVER_WINDOW == 5
\* old_frames = [fid for fid in buffer if fid < frame_id - 2]
CLIENT_WINDOW == 2
\* deque(maxlen=30)
FPS_WINDOW == 30
\* if time.time() - last_fps_print > 2
FPS_PERIOD == 2

Modes == {"normal", "canny", "night", "thermal"}

----------------------------------------------------------------------------
(* Byte strings and struct '!IHHI' *)

Min(a, b) == IF a < b THEN a ELSE b

RECURSIVE Pow256(_)
Pow256(k) == IF k = 0 THEN 1 ELSE 256 * Pow256(k - 1)

\* n as w big-endian bytes (struct.pack network order)
BE(n, w) == [i \in 1..w |-> (n \div Pow256(w - i)) % 256]

RECURSIVE FromBE(_)
\* the unsigned integer held by big-endian bytes bs
FromBE(bs) ==
    IF bs = <<>> THEN 0
    ELSE 256 * FromBE(SubSeq(bs, 1, Len(bs) - 1)) + bs[Len(bs)]

\* struct.pack('!IHHI', frame_id, i, total_chunks, len(data))
Pack(fid, i, total, len) == BE(fid, 4) \o BE(i, 2) \o BE(total, 2) \o BE(len, 4)

\* struct.unpack('!IHHI', hdr)
Unpack(hdr) ==
    [frame_id     |-> FromBE(SubSeq(hdr, 1, 4)),
     chunk_id     |-> FromBE(SubSeq(hdr, 5, 6)),
     total_chunks |-> FromBE(SubSeq(hdr, 7, 8)),
     data_len     |-> FromBE(SubSeq(hdr, 9, 12))]

\* struct.unpack raises struct.error unless the buffer has exactly 12 bytes
Unpackable(hdr) == Len(hdr) = HEADER_LEN

\* Python slices b[:n] and b[n:]
Prefix(b, n) == SubSeq(b, 1, Min(n, Len(b)))
Suffix(b, n) == SubSeq(b, n + 1, Len(b))

----------------------------------------------------------------------------
(* send_frame_udp: the chunking of both senders *)

\* mutant: the chunk count rounded down, len(data) // MAX_CHUNK
TotalChunks_Floor(data) == Len(data) \div MAX_CHUNK

\* mutant: one more than the quotient, len(data) // MAX_CHUNK + 1
TotalChunks_Over(data) == Len(data) \div MAX_CHUNK + 1

\* total_chunks = (len(data) + MAX_CHUNK - 1) // MAX_CHUNK
TotalChunks(data) == (Len(data) + MAX_CHUNK - 1) \div MAX_CHUNK

\* chunk = data[start:end], start = i * MAX_CHUNK, end = min(start + MAX_CHUNK, len(data))
ChunkOf(data, i) ==
    SubSeq(data, i * MAX_CHUNK + 1, Min(i * MAX_CHUNK + MAX_CHUNK, Len(data)))

\* the datagrams of one call, in the order of the for loop
SendFrameUdp(data, fid) ==
    [k \in 1..TotalChunks(data) |->
        Pack(fid, k - 1, TotalChunks(data), Len(data)) \o ChunkOf(data, k - 1)]

----------------------------------------------------------------------------
(* The reassembly buffer of both receivers *)

EmptyDict == <<>>

\* mutant: del leaves the dict as it is
DictDel_Keep(d, ks) == d

DictDel(d, ks) == [k \in DOMAIN d \ ks |-> d[k]]

DictPut(d, k, v) == [x \in DOMAIN d \cup {k} |-> IF x = k THEN v ELSE d[x]]

\* mutant: the length test left out
TooShort_Never(data) == FALSE

\* if len(data) < 12: continue
TooShort(data) == Len(data) < HEADER_LEN

\* chunk_id is a key of buffer[frame_id]
HasChunk(buf, fid, cid) == fid \in DOMAIN buf /\ cid \in DOMAIN buf[fid]

\* mutant: chunks kept in arrival order (appended), chunk_id ignored
StoreChunk_Append(buf, fid, cid, chunk) ==
    LET e == IF fid \in DOMAIN buf THEN buf[fid] ELSE EmptyDict
    IN  DictPut(buf, fid, DictPut(e, Cardinality(DOMAIN e), chunk))

\* mutant: the first payload stored for a chunk_id is kept
StoreChunk_FirstWins(buf, fid, cid, chunk) ==
    LET e == IF fid \in DOMAIN buf THEN buf[fid] ELSE EmptyDict
    IN  DictPut(buf, fid, IF cid \in DOMAIN e THEN e ELSE DictPut(e, cid, chunk))

\* if frame_id not in buffer: buffer[frame_id] = {}
\* buffer[frame_id][chunk_id] = chunk_data
StoreChunk(buf, fid, cid, chunk) ==
    DictPut(buf, fid,
            DictPut(IF fid \in DOMAIN buf THEN buf[fid] ELSE EmptyDict, cid, chunk))

\* len(buffer[frame_id]) == total_chunks
IsComplete(entry, total) == Cardinality(DOMAIN entry) = total

\* buffer[frame_id][i] for i in range(total_chunks) raises KeyError on a missing i
HasAllIndices(entry, total) == \A i \in 0..(total - 1) : i \in DOMAIN entry

RECURSIVE JoinUpTo(_, _)
\* b''.join(entry[i] for i in range(n))
JoinUpTo(entry, n) ==
    IF n = 0 THEN <<>> ELSE JoinUpTo(entry, n - 1) \o entry[n - 1]

\* mutant: the joined chunks, not cut to data_len
Reassemble_NoTruncate(entry, total, data_len) == JoinUpTo(entry, total)

\* frame_data[:data_len] of the joined chunks
Reassemble(entry, total, data_len) == Prefix(JoinUpTo(entry, total), data_len)

\* server: del buffer[frame_id]; then every fid < frame_id - 5
ServerCleanup(buf, fid) ==
    LET b1 == DictDel(buf, {fid})
    IN  DictDel(b1, {f \in DOMAIN b1 : f < fid - SERVER_WINDOW})

\* client: every fid < frame_id - 2; then del buffer[frame_id]
ClientCleanup(buf, fid) ==
    LET b1 == DictDel(buf, {f \in DOMAIN buf : f < fid - CLIENT_WINDOW})
    IN  DictDel(b1, {fid})

----------------------------------------------------------------------------
(* Observations *)

\* Python's None and a present value, as a tuple of length 0 or 1
None == <<>>

Some(x) == <<x>>

NoFrame == None

\* rx: the program whose loop ran, the datagram, the path taken, the reassembled
\* frame_data[:data_len] if the join was reached, the encoded reply if one was
\* sent, the mode process_frame read, and whether the datagram's
\* (frame_id, chunk_id) was already stored
NoRx == [prog |-> "-", data |-> <<>>, outcome |-> "-", frame |-> NoFrame,
         reply |-> None, mode |-> "-", dup |-> FALSE]

Observed(prog, data, outcome, frame, reply, mode, dup) ==
    [prog |-> prog, data |-> data, outcome |-> outcome, frame |-> frame,
     reply |-> reply, mode |-> mode, dup |-> dup]

\* history (kept in SpecRoundTrip): up, down: the calls of send_frame_udp by the
\* Pi and by the computer, each [id, data, dgrams]; srv_arrivals, cli_arrivals:
\* the chunk_ids in the order each receive loop got them; srv_frames,
\* cli_frames: the frame_data[:data_len] each receive loop reassembled
NoHistory == [up |-> <<>>, down |-> <<>>, srv_arrivals |-> <<>>,
              cli_arrivals |-> <<>>, srv_frames |-> <<>>, cli_frames |-> <<>>]

Sending(fid, data, dgrams) == [id |-> fid, data |-> data, dgrams |-> dgrams]

\* mutant: a list, which append never shortens
DequeAppend_Unbounded(q, x) == Append(q, x)

\* deque.append with maxlen
DequeAppend(q, x) ==
    IF Len(q) < FPS_WINDOW THEN Append(q, x) ELSE Append(Tail(q), x)

----------------------------------------------------------------------------
\* what the external image pipeline (imdecode, the transform, imencode) does
\* in a completion branch, with the reply it encodes
ExtMenu(replies) ==
    {<<"raise", <<>>>>, <<"none", <<>>>>} \cup {<<"ok", r>> : r \in replies}

(* computer_server_lowlatency.py, main: one iteration of the receive loop  *)
(* on datagram `data`.  In the completion branch the image pipeline does   *)
(* one of: "ok" (decoded, processed, encoded to one of `replies`), "none"  *)
(* (imdecode returns None), "raise" (imdecode, the transform or imencode   *)
(* raises).  `t` is the time.time() of frame_times.append, `fps_log` what   *)
(* the FPS block of lines 196-202 does after it: "not_due", "too_few",     *)
(* "logged", or "ZeroDivisionError" when the newest and the oldest         *)
(* timestamp of the window are equal.                                      *)

ServerIterationAt(data, replies, t, fps_log) ==
    IF TooShort(data)
    THEN \* continue
         /\ rx' = Observed("server", data, "short", NoFrame, None, "-", FALSE)
         /\ sent' = <<>>
         /\ UNCHANGED <<srv_buffer, frame_times>>
    ELSE IF ~Unpackable(Prefix(data, HEADER_LEN))
    THEN \* struct.error, caught by except Exception (line 214)
         /\ rx' = Observed("server", data, "struct.error", NoFrame, None, "-",
                           FALSE)
         /\ sent' = <<>>
         /\ UNCHANGED <<srv_buffer, frame_times>>
    ELSE
      LET h      == Unpack(Prefix(data, HEADER_LEN))
          chunk  == Suffix(data, HEADER_LEN)
          dup    == HasChunk(srv_buffer, h.frame_id, h.chunk_id)
          stored == StoreChunk(srv_buffer, h.frame_id, h.chunk_id, chunk)
          entry  == stored[h.frame_id]
      IN
        IF ~IsComplete(entry, h.total_chunks)
        THEN /\ srv_buffer' = stored
             /\ rx' = Observed("server", data, "stored", NoFrame, None, "-", dup)
             /\ sent' = <<>>
             /\ UNCHANGED frame_times
        ELSE IF ~HasAllIndices(entry, h.total_chunks)
        THEN \* KeyError in the join, caught by except Exception (line 214)
             /\ srv_buffer' = stored
             /\ rx' = Observed("server", data, "KeyError", NoFrame, None, "-", dup)
             /\ sent' = <<>>
             /\ UNCHANGED frame_times
        ELSE
          LET frame_data == Reassemble(entry, h.total_chunks, h.data_len)
          IN \E ext \in ExtMenu(replies) :
             CASE ext[1] = "raise" ->
                    \* caught by except Exception (line 214): no cleanup
                    /\ srv_buffer' = stored
                    /\ rx' = Observed("server", data, "raise", Some(frame_data), None,
                                      "-", dup)
                    /\ sent' = <<>>
                    /\ UNCHANGED frame_times
               [] ext[1] = "none" ->
                    \* frame is None: cleanup only
                    /\ srv_buffer' = ServerCleanup(stored, h.frame_id)
                    /\ rx' = Observed("server", data, "none", Some(frame_data), None,
                                      "-", dup)
                    /\ sent' = <<>>
                    /\ UNCHANGED frame_times
               [] ext[1] = "ok" /\ fps_log = "ZeroDivisionError" ->
                    \* the reply is sent and its time appended; the division
                    \* of line 199 raises, caught by except Exception (line
                    \* 214): no cleanup
                    /\ srv_buffer' = stored
                    /\ rx' = Observed("server", data, "ZeroDivisionError",
                                      Some(frame_data), Some(ext[2]),
                                      current_mode, dup)
                    /\ sent' = SendFrameUdp(ext[2], h.frame_id)
                    /\ frame_times' = DequeAppend(frame_times, t)
               [] OTHER ->
                    \* process_frame reads current_mode; send_frame_udp replies
                    /\ srv_buffer' = ServerCleanup(stored, h.frame_id)
                    /\ rx' = Observed("server", data, "ok", Some(frame_data),
                                      Some(ext[2]), current_mode, dup)
                    /\ sent' = SendFrameUdp(ext[2], h.frame_id)
                    /\ frame_times' = DequeAppend(frame_times, t)

\* the iteration when less than 2 s pass between FPS lines: the timestamp is
\* the number of the iteration
ServerIteration(data, replies) ==
    ServerIterationAt(data, replies, steps + 1, "not_due")

(* pi_client_lowlatency.py, receive_frames: one iteration of the loop *)

ClientIteration(data) ==
    IF TooShort(data)
    THEN \* continue
         /\ rx' = Observed("client", data, "short", NoFrame, None, "-", FALSE)
         /\ UNCHANGED <<cli_buffer, latest_frame>>
    ELSE IF ~Unpackable(Prefix(data, HEADER_LEN))
    THEN \* struct.error, caught by except Exception (line 92)
         /\ rx' = Observed("client", data, "struct.error", NoFrame, None, "-",
                           FALSE)
         /\ UNCHANGED <<cli_buffer, latest_frame>>
    ELSE
      LET h      == Unpack(Prefix(data, HEADER_LEN))
          chunk  == Suffix(data, HEADER_LEN)
          dup    == HasChunk(cli_buffer, h.frame_id, h.chunk_id)
          stored == StoreChunk(cli_buffer, h.frame_id, h.chunk_id, chunk)
          entry  == stored[h.frame_id]
      IN
        IF ~IsComplete(entry, h.total_chunks)
        THEN /\ cli_buffer' = stored
             /\ rx' = Observed("client", data, "stored", NoFrame, None, "-", dup)
             /\ UNCHANGED latest_frame
        ELSE IF ~HasAllIndices(entry, h.total_chunks)
        THEN \* KeyError, caught by except Exception (line 92)
             /\ cli_buffer' = stored
             /\ rx' = Observed("client", data, "KeyError", NoFrame, None, "-", dup)
             /\ UNCHANGED latest_frame
        ELSE
          LET frame_data == Reassemble(entry, h.total_chunks, h.data_len)
          IN \E ext \in {"raise", "none", "ok"} :
             CASE ext = "raise" ->
                    \* caught by except Exception (line 92): no cleanup
                    /\ cli_buffer' = stored
                    /\ rx' = Observed("client", data, "raise", Some(frame_data), None,
                                      "-", dup)
                    /\ UNCHANGED latest_frame
               [] ext = "none" ->
                    /\ cli_buffer' = ClientCleanup(stored, h.frame_id)
                    /\ rx' = Observed("client", data, "none", Some(frame_data), None,
                                      "-", dup)
                    /\ UNCHANGED latest_frame
               [] OTHER ->
                    /\ cli_buffer' = ClientCleanup(stored, h.frame_id)
                    /\ rx' = Observed("client", data, "ok", Some(frame_data), None,
                                      "-", dup)
                    /\ latest_frame' = Some(frame_data)

----------------------------------------------------------------------------
(* computer_server_lowlatency.py, keyboard_control: one pass of the loop.  *)
(* `key` is the line input() returns; "EOF" stands for input() raising.    *)

\* mutant: a key that names no mode sets the default mode
KeyToMode_Reset(key) ==
    CASE key = "1" -> "normal"
      [] key = "2" -> "canny"
      [] key = "3" -> "night"
      [] key = "4" -> "thermal"
      [] OTHER -> "normal"

KeyToMode(key) ==
    CASE key = "1" -> "normal"
      [] key = "2" -> "canny"
      [] key = "3" -> "night"
      [] key = "4" -> "thermal"
      [] OTHER -> current_mode

KeyboardStep(key) ==
    /\ current_mode' = KeyToMode(key)
    /\ kb_alive' = (key \notin {"q", "EOF"})

----------------------------------------------------------------------------
(* What the environment may hand to a receive loop in Spec *)

Range(s) == {s[i] : i \in DOMAIN s}

FrameIds == {0, 7, ID_MOD - 1}

\* frame 7 in every shape: single-chunk, three chunks, an index that is not
\* below total_chunks, chunks that disagree on total_chunks
Frame7Datagrams ==
    {Pack(7, ct[1], ct[2], 5) \o p :
        ct \in {<<0, 1>>, <<1, 1>>, <<0, 3>>, <<1, 3>>, <<2, 3>>},
        p \in {<<1, 1>>, <<2, 2>>, <<3>>}}

\* the other frame_ids: a frame that completes at once, one that accumulates
OtherDatagrams ==
    {Pack(f, 0, t, 1) \o <<3>> : f \in FrameIds \ {7}, t \in {1, 3}}

\* datagrams shorter than the header
ShortDatagrams == {<<>>, SubSeq(Pack(7, 0, 1, 5), 1, HEADER_LEN - 1)}

RxMenu == Frame7Datagrams \cup OtherDatagrams \cup ShortDatagrams

\* the encoded processed frame: nothing, one chunk, two chunks
ReplyMenu == {<<>>, <<9>>, <<9, 8, 7>>}

KeyMenu == {"1", "2", "3", "4", "q", "x", "EOF"}

----------------------------------------------------------------------------
(* Sockets, and the stream programs before they run *)

\* the sockets each program holds once it is set up:
\* computer_server.py 166 (audio_socket), 241 (server_socket);
\* pi_client.py 126 (audio_socket), 148 (client_socket);
\* computer_server_lowlatency.py 134, 139; pi_client_lowlatency.py 49, 154
SocketsOf(prog) ==
    CASE prog = "stream_server" -> {"server_socket", "audio_socket"}
      [] prog = "stream_client" -> {"pi.client_socket", "pi.audio_socket"}
      [] prog = "server"        -> {"recv_sock", "send_sock"}
      [] prog = "client"        -> {"pi.send_sock", "pi.recv_sock"}

OpenAtStart(progs) == UNION {SocketsOf(prog) : prog \in progs}

NoStreamObs ==
    [srv_decoded |-> <<>>,   \* <<msg_size, frame_data>> last given to pickle.loads
     cli_decoded |-> <<>>,   \* <<packed_msg_size, frame_data>>, on the Pi
     sc_frames   |-> <<>>,   \* payloads the Pi wrote, in order
     ss_frames   |-> <<>>,   \* payloads the computer unpickled, in order
     ss_replies  |-> <<>>,   \* payloads the computer wrote, in order
     sc_replies  |-> <<>>,   \* payloads the Pi unpickled, in order
     accepted    |-> 0,      \* returns of server_socket.accept()
     conns       |-> 0,      \* connections made by a peer
     writes      |-> 0,      \* writes made by a peer
     interrupted |-> {},     \* programs that got KeyboardInterrupt
     session     |-> <<>>,   \* bytes conn.recv returned on the connection
                             \* accepted last
     leftover    |-> <<>>,   \* main's data when the last session ended
     last        |-> "-"]    \* the path the last step of a stream program took

\* no stream program is up
StreamIdle ==
    /\ ss_pc = "absent"
    /\ ss_data = <<>>
    /\ ss_msg_size = 0
    /\ sc_pc = "absent"
    /\ sc_size_data = <<>>
    /\ sc_msg_size = 0
    /\ sc_frame_data = <<>>
    /\ c2s = <<>>
    /\ s2c = <<>>
    /\ srv_end = "none"
    /\ cli_end = "none"
    /\ waiting = 0
    /\ st = NoStreamObs

NoAccess == [thread |-> "-", kind |-> "-", holder |-> "-"]

NoModeObs ==
    [last_set |-> "normal",  \* the value the last completed set wrote
     access   |-> NoAccess,  \* the last read or write of current_mode
     kind     |-> "-",       \* the last control input: "key", "text" or the
                             \* exception of the recognizer
     key      |-> "-",       \* the line input() returned
     text     |-> <<>>,      \* the transcript recognize_google returned
     parsed   |-> <<>>,      \* what parse_voice_command returned for it
     handled  |-> FALSE,     \* the control thread is done with that input
     frames   |-> 0,         \* frames given to process_frame
     held     |-> {},        \* the values current_mode has held since the
                             \* frame in hand was received
     reads    |-> 0,         \* reads of current_mode by process_frame for it
     applied  |-> "-"]       \* the processor that transformed it

\* the threads of SpecMode are not followed
LockIdle ==
    /\ mode_lock = "free"
    /\ pf_pc = "absent"
    /\ pf_mode = "-"
    /\ ctl_pc = "absent"
    /\ ctl_cmd = "-"
    /\ ml = NoModeObs

NoTx == [prog |-> "-", fid |-> 0, data |-> <<>>, failed |-> {},
         attempted |-> <<>>, calls |-> 0]

\* no call of send_frame_udp is followed
SendIdle ==
    /\ tx = NoTx
    /\ pi_main = "loop"

\* fps: the iterations of the receive loop so far, and what the last one
\* logged as FPS: None, or Some(<<count, span>>) for count / span
NoFps == [iterations |-> 0, report |-> None]

\* the FPS log is not followed
MetricsIdle ==
    /\ last_fps_print = 0
    /\ fps = NoFps

ExtIdle ==
    /\ StreamIdle
    /\ open_socks = OpenAtStart(running)
    /\ LockIdle
    /\ SendIdle
    /\ MetricsIdle

----------------------------------------------------------------------------
(* Spec: one program, any datagrams *)

Init ==
    /\ running \in {{"server"}, {"client"}}
    /\ current_mode = "normal"
    /\ kb_alive = TRUE
    /\ srv_buffer = EmptyDict
    /\ frame_times = <<>>
    /\ sent = <<>>
    /\ cli_buffer = EmptyDict
    /\ latest_frame = None
    /\ frame_id = 0
    /\ net_up = {}
    /\ net_down = {}
    /\ rx = NoRx
    /\ history = NoHistory
    /\ steps = 0
    /\ ExtIdle

ServerRecv ==
    /\ "server" \in running
    /\ steps < MaxSteps
    /\ \E data \in RxMenu : ServerIteration(data, ReplyMenu)
    /\ steps' = steps + 1
    /\ UNCHANGED <<running, current_mode, kb_alive, cli_buffer, latest_frame,
                   frame_id, net_up, net_down, history>>
    /\ UNCHANGED extVars

\* except socket.timeout: continue
ServerTimeout ==
    /\ "server" \in running
    /\ UNCHANGED vars

ClientRecv ==
    /\ "client" \in running
    /\ steps < MaxSteps
    /\ \E data \in RxMenu : ClientIteration(data)
    /\ steps' = steps + 1
    /\ UNCHANGED <<running, current_mode, kb_alive, srv_buffer, frame_times,
                   sent, frame_id, net_up, net_down, history>>
    /\ UNCHANGED extVars

\* except socket.timeout: continue
ClientTimeout ==
    /\ "client" \in running
    /\ UNCHANGED vars

KeyboardControl ==
    /\ "server" \in running
    /\ kb_alive
    /\ \E key \in KeyMenu : KeyboardStep(key)
    /\ UNCHANGED <<running, srv_buffer, frame_times, sent, cli_buffer,
                   latest_frame, frame_id, net_up, net_down, rx, history, steps>>
    /\ UNCHANGED extVars

Next ==
    \/ ServerRecv
    \/ ServerTimeout
    \/ ClientRecv
    \/ ClientTimeout
    \/ KeyboardControl

Spec == Init /\ [][Next]_vars

----------------------------------------------------------------------------
(* SpecRoundTrip: both programs and the network between them; one captured *)
(* frame travels Pi -> computer, its processed frame computer -> Pi.  The  *)
(* network reorders freely and delivers each datagram once.                *)

PayloadBytes == {1, 2}

RECURSIVE SeqsOfLen(_)
SeqsOfLen(n) ==
    IF n = 0 THEN {<<>>}
    ELSE {Append(q, b) : q \in SeqsOfLen(n - 1), b \in PayloadBytes}

\* the encoded captured frame: any byte string of at most MaxLen bytes
Payloads == UNION {SeqsOfLen(n) : n \in 0..MaxLen}

InitRoundTrip ==
    /\ running = {"server", "client"}
    /\ current_mode = "normal"
    /\ kb_alive = TRUE
    /\ srv_buffer = EmptyDict
    /\ frame_times = <<>>
    /\ sent = <<>>
    /\ cli_buffer = EmptyDict
    /\ latest_frame = None
    /\ frame_id \in {7, ID_MOD - 1}
    /\ net_up = {}
    /\ net_down = {}
    /\ rx = NoRx
    /\ history = NoHistory
    /\ steps = 0
    /\ ExtIdle

\* pi_client_lowlatency.py main loop: send_frame_udp(send_sock, frame, frame_id,
\* dest); frame_id = (frame_id + 1) % 65536
Capture(payloads) ==
    /\ "client" \in running
    /\ history.up = <<>>
    /\ \E data \in payloads :
         LET dgrams == SendFrameUdp(data, frame_id)
         IN /\ net_up' = net_up \cup Range(dgrams)
            /\ history' = [history EXCEPT
                              !.up = Append(@, Sending(frame_id, data, dgrams))]
    /\ frame_id' = (frame_id + 1) % ID_MOD
    /\ UNCHANGED <<running, current_mode, kb_alive, srv_buffer, frame_times,
                   sent, cli_buffer, latest_frame, net_down, rx, steps>>
    /\ UNCHANGED extVars

\* the pass for any encoded frame of at most MaxLen bytes
CaptureAndSend == Capture(Payloads)

ChunkIdOf(data) == Unpack(Prefix(data, HEADER_LEN)).chunk_id

FrameIdOf(data) == Unpack(Prefix(data, HEADER_LEN)).frame_id

ServerDeliver ==
    /\ "server" \in running
    /\ \E data \in net_up :
         /\ ServerIteration(data, ReplyMenu)
         /\ net_up' = net_up \ {data}
         /\ net_down' = net_down \cup Range(sent')
         /\ history' = [history EXCEPT
               !.srv_arrivals = Append(@, ChunkIdOf(data)),
               !.srv_frames = @ \o rx'.frame,
               !.down = IF rx'.reply = None THEN @
                        ELSE Append(@, Sending(FrameIdOf(data), rx'.reply[1],
                                               sent'))]
    /\ steps' = steps + 1
    /\ UNCHANGED <<running, current_mode, kb_alive, cli_buffer, latest_frame,
                   frame_id>>
    /\ UNCHANGED extVars

ClientDeliver ==
    /\ "client" \in running
    /\ \E data \in net_down :
         /\ ClientIteration(data)
         /\ net_down' = net_down \ {data}
         /\ history' = [history EXCEPT
               !.cli_arrivals = Append(@, ChunkIdOf(data)),
               !.cli_frames = @ \o rx'.frame]
    /\ steps' = steps + 1
    /\ UNCHANGED <<running, current_mode, kb_alive, srv_buffer, frame_times,
                   sent, frame_id, net_up>>
    /\ UNCHANGED extVars

NextRoundTrip ==
    \/ CaptureAndSend
    \/ ServerDeliver
    \/ ClientDeliver

SpecRoundTrip == InitRoundTrip /\ [][NextRoundTrip]_vars

----------------------------------------------------------------------------
(* Claims checked under SpecRoundTrip *)

RECURSIVE ConcatPayloads(_)
\* the chunk payloads of datagrams dgrams, concatenated in the order given
ConcatPayloads(dgrams) ==
    IF dgrams = <<>> THEN <<>>
    ELSE Suffix(Head(dgrams), HEADER_LEN) \o ConcatPayloads(Tail(dgrams))

\* the frame a chunk set stands for: its payloads in index order (the order
\* send_frame_udp produced them), cut to the total_length of its headers
ChunkSetBytes(dgrams) ==
    Prefix(ConcatPayloads(dgrams),
           Unpack(Prefix(dgrams[1], HEADER_LEN)).data_len)

OrderInsensitive(sendings, arrivals, frames) ==
    \A i \in DOMAIN sendings :
        LET n == Len(sendings[i].dgrams)
        IN /\ Len(arrivals) < n => frames = <<>>
           /\ (n > 0 /\ Len(arrivals) = n) =>
                 frames = <<ChunkSetBytes(sendings[i].dgrams)>>

\* C2: for the chunk set of one frame_id, whatever the order in which the
\* network delivers it, the receiver completes the frame exactly when the last
\* chunk arrives (not before) and the reassembled bytes are those of the chunk
\* set in index order, the same for every permutation.
C2_OrderInsensitive ==
    /\ OrderInsensitive(history.up, history.srv_arrivals, history.srv_frames)
    /\ OrderInsensitive(history.down, history.cli_arrivals, history.cli_frames)

\* three chunks arrived at the computer in the order 2, 0, 1 and two at the Pi
\* in the order 1, 0, and both frames were completed
C2_Witness ==
    /\ history.srv_arrivals = <<2, 0, 1>>
    /\ history.srv_frames # <<>>
    /\ history.cli_arrivals = <<1, 0>>
    /\ history.cli_frames # <<>>

----------------------------------------------------------------------------
(* Claims checked under Spec *)

\* a receive-loop iteration took place in this step
Received == steps' = steps + 1

\* wraparound-aware order of frame_ids (mod 65536): how far f is behind c, and
\* whether f is newer than c
Behind(f, c) == (c - f) % ID_MOD

Newer(f, c) == f # c /\ (f - c) % ID_MOD < ID_MOD \div 2

Stale(f, c, w) == Behind(f, c) > w /\ Behind(f, c) < ID_MOD \div 2

BufferOf(prog) == IF prog = "server" THEN srv_buffer ELSE cli_buffer

\* this step is a receive-loop iteration that follows one which only stored a
\* chunk (so the entry that chunk belongs to is still accumulating), and it
\* takes the path `outcomes`
ReceivedAfterStore(outcomes) ==
    /\ Received
    /\ rx.outcome = "stored"
    /\ rx'.prog = rx.prog
    /\ rx'.outcome \in outcomes

LiveKept(buf, bufn, c, w) ==
    \A f \in DOMAIN buf \ {c} :
        (Newer(f, c) \/ Behind(f, c) <= w) => f \in DOMAIN bufn

NoneStale(bufn, c, w) == \A f \in DOMAIN bufn : ~Stale(f, c, w)

\* C3: when a frame with id c completes and the buffer is cleaned up, no entry
\* is deleted whose frame_id is newer than c in wraparound-aware order or at
\* most W behind c (W = 5 on the computer, 2 on the Pi).
C3_NoLiveEntryEvicted ==
    [][ReceivedAfterStore({"none", "ok"}) =>
          IF rx'.prog = "server"
          THEN LiveKept(srv_buffer, srv_buffer', FrameIdOf(rx'.data),
                        SERVER_WINDOW)
          ELSE LiveKept(cli_buffer, cli_buffer', FrameIdOf(rx'.data),
                        CLIENT_WINDOW)]_vars

\* C4: immediately after a frame with id c has completed and the buffer was
\* cleaned up, the buffer holds no entry whose wraparound-aware distance
\* behind c exceeds the window W.
C4_NoStaleEntryLeft ==
    [][ReceivedAfterStore({"none", "ok"}) =>
          IF rx'.prog = "server"
          THEN NoneStale(srv_buffer', FrameIdOf(rx'.data), SERVER_WINDOW)
          ELSE NoneStale(cli_buffer', FrameIdOf(rx'.data), CLIENT_WINDOW)]_vars

\* C5: once a chunk of a later frame_id has arrived (no frame completing), no
\* entry remains whose wraparound-aware distance behind that frame_id exceeds
\* the window, so the buffer stays bounded when no frame ever completes.
C5_EvictedOnLaterArrival ==
    [][ReceivedAfterStore({"stored"}) =>
          IF rx'.prog = "server"
          THEN NoneStale(srv_buffer', FrameIdOf(rx'.data), SERVER_WINDOW)
          ELSE NoneStale(cli_buffer', FrameIdOf(rx'.data), CLIENT_WINDOW)]_vars

\* the completion branch was entered: len(buffer[frame_id]) == total_chunks held
DeclaredComplete(outcome) == outcome \in {"KeyError", "raise", "none", "ok"}

DupTolerant(buf, bufn, h, chunk, outcome) ==
    LET had == IF h.frame_id \in DOMAIN buf THEN DOMAIN buf[h.frame_id] ELSE {}
    IN /\ DeclaredComplete(outcome) <=>
             Cardinality(had \cup {h.chunk_id}) = h.total_chunks
       /\ h.chunk_id \in had =>
             /\ DeclaredComplete(outcome) <=> Cardinality(had) = h.total_chunks
             /\ h.frame_id \in DOMAIN bufn =>
                   /\ DOMAIN bufn[h.frame_id] = had
                   /\ bufn[h.frame_id][h.chunk_id] = chunk

\* C6: a chunk whose (frame_id, chunk_id) is already stored overwrites the
\* stored payload and adds no index; a frame is declared complete exactly when
\* the number of distinct stored indices equals total_chunks, so duplicates of
\* some chunks never complete a frame that lacks another chunk.
C6_DuplicateTolerant ==
    [][(Received /\ Len(rx'.data) >= HEADER_LEN) =>
          IF rx'.prog = "server"
          THEN DupTolerant(srv_buffer, srv_buffer',
                           Unpack(Prefix(rx'.data, HEADER_LEN)),
                           Suffix(rx'.data, HEADER_LEN), rx'.outcome)
          ELSE DupTolerant(cli_buffer, cli_buffer',
                           Unpack(Prefix(rx'.data, HEADER_LEN)),
                           Suffix(rx'.data, HEADER_LEN), rx'.outcome)]_vars

\* a duplicate of chunk 0 of frame 7 (two of three chunks stored) replaced the
\* stored payload and did not complete the frame
C6_Witness ==
    /\ rx.prog = "server"
    /\ rx.dup
    /\ rx.outcome = "stored"
    /\ rx.data = Pack(7, 0, 3, 5) \o <<2, 2>>
    /\ 7 \in DOMAIN srv_buffer
    /\ DOMAIN srv_buffer[7] = {0, 1}
    /\ srv_buffer[7][0] = <<2, 2>>

RECURSIVE ConcatFrom(_, _, _)
\* the payloads e[i], e[i+1], .., e[n-1], concatenated
ConcatFrom(e, i, n) ==
    IF i >= n THEN <<>> ELSE e[i] \o ConcatFrom(e, i + 1, n)

CompletionResult(buf, h, chunk, frame) ==
    LET had == IF h.frame_id \in DOMAIN buf THEN buf[h.frame_id] ELSE <<>>
        e   == [i \in DOMAIN had \cup {h.chunk_id} |->
                   IF i = h.chunk_id THEN chunk ELSE had[i]]
    IN /\ frame # None <=> DOMAIN e = 0..(h.total_chunks - 1)
       /\ frame # None =>
             frame = Some(Prefix(ConcatFrom(e, 0, h.total_chunks), h.data_len))

\* C7: a frame is emitted exactly when the stored indices are 0..total_chunks-1,
\* and the emitted payload is the stored chunk payloads concatenated in index
\* order, cut to total_length; three chunks of sizes MAX_CHUNK, MAX_CHUNK and
\* less (60000, 60000, 1500 in the source's scale) give one frame of their
\* total length on arrival of the third.
C7_CompletionResult ==
    [][(Received /\ Len(rx'.data) >= HEADER_LEN) =>
          IF rx'.prog = "server"
          THEN CompletionResult(srv_buffer,
                                Unpack(Prefix(rx'.data, HEADER_LEN)),
                                Suffix(rx'.data, HEADER_LEN), rx'.frame)
          ELSE CompletionResult(cli_buffer,
                                Unpack(Prefix(rx'.data, HEADER_LEN)),
                                Suffix(rx'.data, HEADER_LEN), rx'.frame)]_vars

\* frame 7 in three chunks of 2, 2 and 1 bytes: the third datagram handled is
\* chunk 2, the one frame emitted has the 5 bytes in index order, it was the
\* only frame processed, and the entry is gone
C7_Witness ==
    /\ rx.prog = "server"
    /\ rx.outcome = "ok"
    /\ rx.data = Pack(7, 2, 3, 5) \o <<3>>
    /\ rx.frame = Some(<<1, 1, 2, 2, 3>>)
    /\ steps = 3
    /\ frame_times = <<3>>
    /\ 7 \notin DOMAIN srv_buffer

\* C8: once the stored chunk count of a frame_id has reached total_chunks and
\* the frame was reassembled, its entry is gone before the next datagram is
\* handled, on every path through the completion branch.
C8_CompletedEntryDeleted ==
    rx.frame # None => FrameIdOf(rx.data) \notin DOMAIN BufferOf(rx.prog)

\* C9: every chunk a receive loop stores has chunk_id < total_chunks, and the
\* join of a frame declared complete never fails on a missing index.
C9_ChunkIndexBelowTotal ==
    /\ rx.outcome # "KeyError"
    /\ rx.outcome = "stored" =>
          Unpack(Prefix(rx.data, HEADER_LEN)).chunk_id
              < Unpack(Prefix(rx.data, HEADER_LEN)).total_chunks

\* C10: a datagram shorter than the 12-byte header is discarded without an
\* exception; buffer, current_mode, metrics window and latest frame are
\* unchanged, nothing is sent, and the program keeps running its loop.
C10_ShortDatagramDiscarded ==
    [][(Received /\ Len(rx'.data) < HEADER_LEN) =>
          /\ rx'.outcome = "short"
          /\ sent' = <<>>
          /\ UNCHANGED <<srv_buffer, cli_buffer, current_mode, frame_times,
                         latest_frame, running, kb_alive, net_up, net_down>>]_vars

\* an 11-byte datagram was discarded by the computer while its buffer held an
\* entry, the metrics window a timestamp, and the mode was not the default
C10_Witness ==
    /\ rx.prog = "server"
    /\ rx.outcome = "short"
    /\ Len(rx.data) = HEADER_LEN - 1
    /\ srv_buffer # EmptyDict
    /\ frame_times # <<>>
    /\ current_mode # "normal"

----------------------------------------------------------------------------
(* Stream mode.  computer_server.py main (252-309) and pi_client.py main  *)
(* loop (154-190), each step from one blocking call to the next.  A recv  *)
(* returns any non-empty prefix of the bytes in flight, at most its       *)
(* bufsize; b"" once the peer has closed and nothing is in flight.        *)

\* frames the Pi sends in SpecStream
MaxFrames == 2
\* connections a peer makes to the stream server in SpecStream
MaxConns == 2
\* writes a peer makes in SpecStream
MaxWrites == 1

\* payload_size = 4; struct "!I"
SIZE_LEN == 4
\* conn.recv(4096), client_socket.recv(4096)
RECV_BUF == 4096

\* message_size + data: struct.pack("!I", len(data)) + data
Message(payload) == BE(Len(payload), SIZE_LEN) \o payload

\* except (ConnectionError, BrokenPipeError, EOFError) of computer_server.py:299;
\* BrokenPipeError and ConnectionResetError are subclasses of ConnectionError,
\* TimeoutError (errno ETIMEDOUT) is an OSError that is not
CaughtBySession == {"ConnectionError", "BrokenPipeError", "ConnectionResetError",
                    "EOFError"}

\* except (ConnectionError, BrokenPipeError) of pi_client.py:188
CaughtByClientLoop == {"ConnectionError", "BrokenPipeError",
                       "ConnectionResetError"}

\* what a recv on an established connection can raise
RecvFaults == {"ConnectionResetError", "TimeoutError"}

\* what sendall can do: complete, or raise; EPIPE needs a peer that has closed
SendOutcomes(peer_end) ==
    {"ok", "TimeoutError"} \cup
    (IF peer_end = "closed" THEN {"BrokenPipeError"} ELSE {})

\* pickle.loads, process_frame, pickle.dumps of computer_server.py:285-291:
\* pickle.loads(b"") raises EOFError, as does a truncated pickle; other bytes
\* that are no pickle raise UnpicklingError; process_frame raises cv2.error on
\* a frame its processor cannot handle; else the pickled processed frame
StreamReplyMenu == {<<5>>, <<5, 6>>}

ServerExtMenu(frame_data) ==
    IF frame_data = <<>> THEN {<<"EOFError">>}
    ELSE {<<"EOFError">>, <<"UnpicklingError">>, <<"cv2.error">>}
         \cup {<<"ok", reply>> : reply \in StreamReplyMenu}

\* pickle.loads and the display calls of pi_client.py:182-186
ClientExtMenu(frame_data) ==
    IF frame_data = <<>> THEN {"EOFError"}
    ELSE {"EOFError", "UnpicklingError", "cv2.error", "ok"}

\* lines 264-282 from the top of the loop with `data` in hand, up to the next
\* blocking recv or to the point where a whole message is in `data`
ServerParse(data) ==
    IF Len(data) < SIZE_LEN
    THEN [pc |-> "recv_size", data |-> data, msg_size |-> ss_msg_size]
    ELSE LET msg_size == FromBE(Prefix(data, SIZE_LEN))
             rest == Suffix(data, SIZE_LEN)
         IN [pc |-> IF Len(rest) < msg_size THEN "recv_body" ELSE "process",
             data |-> rest, msg_size |-> msg_size]

\* the while loop of 275-279 after data += packet
ServerBody(data) ==
    [pc |-> IF Len(data) < ss_msg_size THEN "recv_body" ELSE "process",
     data |-> data, msg_size |-> ss_msg_size]

\* frame_data = data[:msg_size]
TakeFrame(data, msg_size) == Prefix(data, msg_size)

\* the exception reaches `except (ConnectionError, ...)`: warning, then
\* finally: conn.close(), and the outer while loop goes back to accept().  The
\* next connection of the backlog, if any, becomes the one to accept.
ServerSessionEnd(why, obs, data) ==
    /\ ss_pc' = "accept"
    /\ open_socks' = open_socks \ {"conn"}
    /\ c2s' = <<>>
    /\ IF waiting > 0
       THEN /\ srv_end' = "pending"
            /\ cli_end' = "open"
            /\ s2c' = <<>>
            /\ waiting' = waiting - 1
       ELSE /\ srv_end' = "closed"
            /\ UNCHANGED <<cli_end, s2c, waiting>>
    /\ st' = [obs EXCEPT !.last = why, !.leftover = data]
    /\ ss_data' = data
    /\ UNCHANGED ss_msg_size

\* the exception is no ConnectionError or EOFError: finally conn.close(), then
\* it leaves the outer try past `except KeyboardInterrupt`: finally
\* server_socket.close(), and main ends
ServerExit(why, obs, data) ==
    /\ ss_pc' = "exited"
    /\ open_socks' = open_socks \ {"conn", "server_socket"}
    /\ c2s' = <<>>
    /\ srv_end' = IF srv_end = "open" THEN "closed" ELSE srv_end
    /\ st' = [obs EXCEPT !.last = why]
    /\ ss_data' = data
    /\ UNCHANGED <<ss_msg_size, cli_end, s2c, waiting>>

\* `data` is main's data at the statement that raises
ServerRaise(exc, obs, data) ==
    IF exc \in CaughtBySession THEN ServerSessionEnd(exc, obs, data)
    ELSE ServerExit(exc, obs, data)

\* mutant: data is not reset
DataAtAccept_Kept(data) == data

\* data = b"" (line 258)
DataAtAccept(data) == <<>>

\* conn, addr = server_socket.accept(); data = b""
StreamServerAccept ==
    /\ "stream_server" \in running
    /\ ss_pc = "accept"
    /\ srv_end = "pending"
    /\ srv_end' = "open"
    /\ ss_data' = DataAtAccept(ss_data)
    /\ ss_pc' = "recv_size"
    /\ open_socks' = open_socks \cup {"conn"}
    /\ st' = [st EXCEPT !.accepted = @ + 1, !.last = "accept",
                        !.session = <<>>]
    /\ UNCHANGED <<ss_msg_size, c2s, s2c, cli_end, waiting>>
    /\ UNCHANGED <<sc_pc, sc_size_data, sc_msg_size, sc_frame_data>>
    /\ UNCHANGED nonStreamVars

\* packet = conn.recv(4096) at 265 or 276, and what follows up to the next
\* blocking call
StreamServerRecv ==
    /\ "stream_server" \in running
    /\ ss_pc \in {"recv_size", "recv_body"}
    /\ \/ \E n \in 1..Min(Len(c2s), RECV_BUF) :
             LET data == ss_data \o Prefix(c2s, n)
                 nxt == IF ss_pc = "recv_size" THEN ServerParse(data)
                        ELSE ServerBody(data)
             IN /\ c2s' = Suffix(c2s, n)
                /\ ss_pc' = nxt.pc
                /\ ss_data' = nxt.data
                /\ ss_msg_size' = nxt.msg_size
                /\ st' = [st EXCEPT !.last = "recv",
                                    !.session = @ \o Prefix(c2s, n)]
                /\ UNCHANGED <<s2c, srv_end, cli_end, waiting, open_socks>>
       \/ /\ c2s = <<>>
          /\ cli_end = "closed"
          \* if not packet: raise ConnectionError("Connection closed by client")
          /\ ServerRaise("ConnectionError", st, ss_data)
       \/ \E exc \in RecvFaults : ServerRaise(exc, st, ss_data)
    /\ UNCHANGED <<sc_pc, sc_size_data, sc_msg_size, sc_frame_data>>
    /\ UNCHANGED nonStreamVars

\* lines 281-297: take the message out of data, unpickle, process_frame,
\* pickle, sendall; then the top of the loop again
StreamServerProcess ==
    /\ "stream_server" \in running
    /\ ss_pc = "process"
    /\ LET frame_data == TakeFrame(ss_data, ss_msg_size)
           rest == Suffix(ss_data, ss_msg_size)
           seen == [st EXCEPT !.srv_decoded = <<ss_msg_size, frame_data>>]
       IN \E ext \in ServerExtMenu(frame_data) :
            IF ext[1] # "ok"
            THEN ServerRaise(ext[1], seen, rest)
            ELSE \E w \in SendOutcomes(cli_end) :
                   IF w # "ok"
                   THEN ServerRaise(w, [seen EXCEPT
                                           !.ss_frames = Append(@, frame_data)],
                                    rest)
                   ELSE LET nxt == ServerParse(rest)
                        IN /\ s2c' = s2c \o Message(ext[2])
                           /\ ss_pc' = nxt.pc
                           /\ ss_data' = nxt.data
                           /\ ss_msg_size' = nxt.msg_size
                           /\ st' = [seen EXCEPT !.last = "replied",
                                        !.ss_frames = Append(@, frame_data),
                                        !.ss_replies = Append(@, ext[2])]
                           /\ UNCHANGED <<c2s, srv_end, cli_end, waiting,
                                          open_socks>>
    /\ UNCHANGED <<sc_pc, sc_size_data, sc_msg_size, sc_frame_data>>
    /\ UNCHANGED nonStreamVars

\* the loop is left (break at 190, or an exception that reaches the outer
\* except clauses 192-197); finally: client_socket.close(),
\* audio_socket.close(); the program ends without another connect()
ClientStop(why, obs) ==
    /\ sc_pc' = "stopped"
    /\ cli_end' = "closed"
    /\ s2c' = <<>>
    /\ open_socks' = open_socks \ {"pi.client_socket", "pi.audio_socket"}
    /\ st' = [obs EXCEPT !.last = why]
    /\ UNCHANGED <<sc_size_data, sc_msg_size, sc_frame_data, c2s, srv_end,
                   waiting>>

\* the pickled captured frame (pickle.dumps never returns b"")
FramePayloads == {<<1>>, <<2, 3>>}

\* mutant: the next frame may be written while a reply is still awaited
ClientAtTop_Pipelined == sc_pc \in {"send", "recv_size", "recv_body"}

\* the while True loop of pi_client.py:154 is at its top
ClientAtTop == sc_pc = "send"

\* lines 155-166: data = pickle.dumps(frame); client_socket.sendall(
\* message_size + data); size_data = b""
StreamClientSend ==
    /\ "stream_client" \in running
    /\ ClientAtTop
    /\ Len(st.sc_frames) < MaxFrames
    /\ \E payload \in FramePayloads, w \in SendOutcomes(srv_end) :
         IF w # "ok"
         THEN ClientStop(w, st)
         ELSE /\ c2s' = IF srv_end \in {"pending", "open"}
                        THEN c2s \o Message(payload) ELSE c2s
              /\ sc_pc' = "recv_size"
              /\ sc_size_data' = <<>>
              /\ st' = [st EXCEPT !.sc_frames = Append(@, payload),
                                  !.last = "sent"]
              /\ UNCHANGED <<sc_msg_size, sc_frame_data, s2c, srv_end, cli_end,
                             waiting, open_socks>>
    /\ UNCHANGED <<ss_pc, ss_data, ss_msg_size>>
    /\ UNCHANGED nonStreamVars

\* packet = client_socket.recv(4 - len(size_data)) at 168, or
\* client_socket.recv(4096) at 177, and what follows up to the next blocking
\* call
StreamClientRecv ==
    /\ "stream_client" \in running
    /\ sc_pc \in {"recv_size", "recv_body"}
    /\ \/ /\ sc_pc = "recv_size"
          /\ \E n \in 1..Min(Len(s2c), SIZE_LEN - Len(sc_size_data)) :
               LET size_data == sc_size_data \o Prefix(s2c, n)
               IN /\ s2c' = Suffix(s2c, n)
                  /\ sc_size_data' = size_data
                  /\ IF Len(size_data) < SIZE_LEN
                     THEN UNCHANGED <<sc_pc, sc_msg_size, sc_frame_data>>
                     ELSE /\ sc_msg_size' = FromBE(size_data)
                          /\ sc_frame_data' = <<>>
                          /\ sc_pc' = IF 0 < FromBE(size_data)
                                      THEN "recv_body" ELSE "decode"
                  /\ st' = [st EXCEPT !.last = "recv"]
                  /\ UNCHANGED <<c2s, srv_end, cli_end, waiting, open_socks>>
       \/ /\ sc_pc = "recv_body"
          /\ \E n \in 1..Min(Len(s2c), RECV_BUF) :
               LET frame_data == sc_frame_data \o Prefix(s2c, n)
               IN /\ s2c' = Suffix(s2c, n)
                  /\ sc_frame_data' = frame_data
                  /\ sc_pc' = IF Len(frame_data) < sc_msg_size
                              THEN "recv_body" ELSE "decode"
                  /\ st' = [st EXCEPT !.last = "recv"]
                  /\ UNCHANGED <<sc_size_data, sc_msg_size, c2s, srv_end,
                                 cli_end, waiting, open_socks>>
       \/ /\ s2c = <<>>
          /\ srv_end = "closed"
          \* if not packet: raise ConnectionError("Connection lost")
          /\ ClientStop("ConnectionError", st)
       \/ \E exc \in RecvFaults : ClientStop(exc, st)
    /\ UNCHANGED <<ss_pc, ss_data, ss_msg_size>>
    /\ UNCHANGED nonStreamVars

\* lines 182-186: processed_frame = pickle.loads(frame_data), then the display
StreamClientDecode ==
    /\ "stream_client" \in running
    /\ sc_pc = "decode"
    /\ LET seen == [st EXCEPT !.cli_decoded = <<sc_msg_size, sc_frame_data>>]
       IN \E ext \in ClientExtMenu(sc_frame_data) :
            IF ext # "ok"
            THEN ClientStop(ext, seen)
            ELSE /\ sc_pc' = "send"
                 /\ st' = [seen EXCEPT !.sc_replies = Append(@, sc_frame_data),
                                       !.last = "shown"]
                 /\ UNCHANGED <<sc_size_data, sc_msg_size, sc_frame_data, c2s,
                                s2c, srv_end, cli_end, waiting, open_socks>>
    /\ UNCHANGED <<ss_pc, ss_data, ss_msg_size>>
    /\ UNCHANGED nonStreamVars

----------------------------------------------------------------------------
(* The peer of a stream program that runs alone: any TCP endpoint *)

\* what one write of a peer puts on the stream: whole messages of 1, 2 and 0
\* bytes, a message cut after 1 of its 2 payload bytes, two messages at once
PeerMenu ==
    {Message(<<7>>), Message(<<7, 8>>), Message(<<>>),
     Prefix(Message(<<7, 8>>), SIZE_LEN + 1),
     Message(<<7>>) \o Message(<<8>>)}

\* a peer connects to the stream server (listen(1) keeps it in the backlog
\* until accept() returns it)
PeerConnect ==
    /\ running = {"stream_server"}
    /\ "server_socket" \in open_socks
    /\ st.conns < MaxConns
    /\ IF srv_end \in {"none", "closed"}
       THEN /\ srv_end' = "pending"
            /\ cli_end' = "open"
            /\ c2s' = <<>>
            /\ s2c' = <<>>
            /\ UNCHANGED waiting
       ELSE /\ waiting' = waiting + 1
            /\ UNCHANGED <<srv_end, cli_end, c2s, s2c>>
    /\ st' = [st EXCEPT !.conns = @ + 1, !.last = "peer"]
    /\ UNCHANGED <<ss_pc, ss_data, ss_msg_size, sc_pc, sc_size_data,
                   sc_msg_size, sc_frame_data, open_socks>>
    /\ UNCHANGED nonStreamVars

\* the peer writes to the connection
PeerSend ==
    /\ st.writes < MaxWrites
    /\ cli_end = "open"
    /\ \E bytes \in PeerMenu :
         \/ /\ running = {"stream_server"}
            /\ srv_end \in {"pending", "open"}
            /\ c2s' = c2s \o bytes
            /\ UNCHANGED s2c
         \/ /\ running = {"stream_client"}
            /\ srv_end = "open"
            /\ s2c' = s2c \o bytes
            /\ UNCHANGED c2s
    /\ st' = [st EXCEPT !.writes = @ + 1, !.last = "peer"]
    /\ UNCHANGED <<ss_pc, ss_data, ss_msg_size, sc_pc, sc_size_data,
                   sc_msg_size, sc_frame_data, srv_end, cli_end, waiting,
                   open_socks>>
    /\ UNCHANGED nonStreamVars

\* the peer closes its end
PeerClose ==
    /\ \/ /\ running = {"stream_server"}
          /\ cli_end = "open"
          /\ srv_end \in {"pending", "open"}
          /\ cli_end' = "closed"
          /\ UNCHANGED srv_end
       \/ /\ running = {"stream_client"}
          /\ srv_end = "open"
          /\ srv_end' = "closed"
          /\ UNCHANGED cli_end
    /\ st' = [st EXCEPT !.last = "peer"]
    /\ UNCHANGED <<ss_pc, ss_data, ss_msg_size, sc_pc, sc_size_data,
                   sc_msg_size, sc_frame_data, c2s, s2c, waiting, open_socks>>
    /\ UNCHANGED nonStreamVars

----------------------------------------------------------------------------
(* Process-level events *)

\* conn, addr = audio_socket.accept() in audio_server_thread
\* (computer_server.py:175)
AudioAccept ==
    /\ "stream_server" \in running
    /\ ss_pc # "exited"
    /\ "audio_conn" \notin open_socks
    /\ open_socks' = open_socks \cup {"audio_conn"}
    /\ st' = [st EXCEPT !.last = "audio"]
    /\ UNCHANGED <<ss_pc, ss_data, ss_msg_size, sc_pc, sc_size_data,
                   sc_msg_size, sc_frame_data, c2s, s2c, srv_end, cli_end,
                   waiting>>
    /\ UNCHANGED nonStreamVars

\* every socket a program creates while it runs
AllSocketsOf(prog) ==
    SocketsOf(prog) \cup
    (IF prog = "stream_server" THEN {"conn", "audio_conn"} ELSE {})

\* the sockets the handlers of KeyboardInterrupt close in the datagram
\* programs: computer_server_lowlatency.py:219-221 (recv_sock, send_sock),
\* pi_client_lowlatency.py:201-205 (send_sock)
ClosedOnInterrupt(prog) ==
    CASE prog = "server" -> {"recv_sock", "send_sock"}
      [] prog = "client" -> {"pi.send_sock"}

\* Ctrl-C: KeyboardInterrupt is raised in the main thread of a program
\*   computer_server.py: finally conn.close() (302) when a session is on,
\*     except KeyboardInterrupt (305), finally server_socket.close() (308);
\*   pi_client.py: except KeyboardInterrupt (192), finally (198-204);
\*   the datagram programs: the finally blocks named above.
KeyboardInterrupt ==
    \E prog \in running :
       LET obs == [st EXCEPT !.interrupted = @ \cup {prog}]
       IN \/ /\ prog = "stream_server"
             /\ ss_pc # "exited"
             /\ ServerExit("KeyboardInterrupt", obs, ss_data)
             /\ UNCHANGED <<sc_pc, sc_size_data, sc_msg_size, sc_frame_data>>
             /\ UNCHANGED nonStreamVars
          \/ /\ prog = "stream_client"
             /\ sc_pc # "stopped"
             /\ ClientStop("KeyboardInterrupt", obs)
             /\ UNCHANGED <<ss_pc, ss_data, ss_msg_size>>
             /\ UNCHANGED nonStreamVars
          \/ /\ prog \in {"server", "client"}
             /\ running' = running \ {prog}
             /\ open_socks' = open_socks \ ClosedOnInterrupt(prog)
             /\ st' = [obs EXCEPT !.last = "KeyboardInterrupt"]
             /\ UNCHANGED <<ss_pc, ss_data, ss_msg_size, sc_pc, sc_size_data,
                            sc_msg_size, sc_frame_data, c2s, s2c, srv_end,
                            cli_end, waiting>>
             /\ UNCHANGED <<current_mode, kb_alive, srv_buffer, frame_times,
                            sent, cli_buffer, latest_frame, frame_id, net_up,
                            net_down, rx, history, steps>>
             /\ UNCHANGED <<lockVars, sendVars, metricVars>>

----------------------------------------------------------------------------
(* SpecStream: the stream server with any peer, the stream client with any *)
(* peer, the two together on one connection; and Ctrl-C in every program   *)

InitStream ==
    /\ running \in {{"stream_server"}, {"stream_client"},
                    {"stream_server", "stream_client"}, {"server"}, {"client"}}
    /\ current_mode = "normal"
    /\ kb_alive = TRUE
    /\ srv_buffer = EmptyDict
    /\ frame_times = <<>>
    /\ sent = <<>>
    /\ cli_buffer = EmptyDict
    /\ latest_frame = None
    /\ frame_id = 0
    /\ net_up = {}
    /\ net_down = {}
    /\ rx = NoRx
    /\ history = NoHistory
    /\ steps = 0
    /\ ss_pc = IF "stream_server" \in running THEN "accept" ELSE "absent"
    /\ ss_data = <<>>
    /\ ss_msg_size = 0
    /\ sc_pc = IF "stream_client" \in running THEN "send" ELSE "absent"
    /\ sc_size_data = <<>>
    /\ sc_msg_size = 0
    /\ sc_frame_data = <<>>
    /\ c2s = <<>>
    /\ s2c = <<>>
    \* pi_client.py:149 has connected: the connection waits in the computer's
    \* backlog, or a peer has accepted it
    /\ srv_end = CASE running = {"stream_server", "stream_client"} -> "pending"
                   [] running = {"stream_client"} -> "open"
                   [] OTHER -> "none"
    /\ cli_end = IF "stream_client" \in running THEN "open" ELSE "none"
    /\ waiting = 0
    /\ open_socks = OpenAtStart(running)
    /\ st = NoStreamObs
    /\ LockIdle
    /\ SendIdle
    /\ MetricsIdle

NextStream ==
    \/ StreamServerAccept
    \/ StreamServerRecv
    \/ StreamServerProcess
    \/ StreamClientSend
    \/ StreamClientRecv
    \/ StreamClientDecode
    \/ PeerConnect
    \/ PeerSend
    \/ PeerClose
    \/ AudioAccept
    \/ KeyboardInterrupt

SpecStream == InitStream /\ [][NextStream]_vars

----------------------------------------------------------------------------
(* Claims checked under SpecStream *)

\* C11 as stated: whatever the split of the byte stream into partial reads,
\* the payload handed to pickle.loads has exactly the number of bytes the
\* 4-byte big-endian length prefix announced, on the computer and on the Pi;
\* and a read that finds the peer closed before that count is reached raises
\* ConnectionError and hands no payload on.
C11_ExactlyAnnounced ==
    [][/\ st'.srv_decoded # <<>> =>
             Len(st'.srv_decoded[2]) = st'.srv_decoded[1]
       /\ st'.cli_decoded # <<>> =>
             Len(st'.cli_decoded[2]) = st'.cli_decoded[1]
       /\ st'.last = "ConnectionError" =>
             /\ st'.srv_decoded = st.srv_decoded
             /\ st'.cli_decoded = st.cli_decoded]_vars

IsPrefixOf(a, b) == Len(a) <= Len(b) /\ a = SubSeq(b, 1, Len(a))

InSession == ss_pc \in {"recv_size", "recv_body", "process"}

IsSuffixOf(a, b) ==
    Len(a) <= Len(b) /\ a = SubSeq(b, Len(b) - Len(a) + 1, Len(b))

\* C25: sessions of the stream server are isolated.  When accept() returns,
\* main's data is empty, whatever the session before left in it; and during
\* a session data holds only bytes that recv returned on the connection of
\* that session: it is the last part of them, the part before it having
\* been taken out as length prefixes and messages.
C25_SessionsIsolated ==
    [][/\ st'.accepted # st.accepted =>
             /\ ss_data' = <<>>
             /\ st'.session = <<>>
       /\ InSession' => IsSuffixOf(ss_data', st'.session)
       /\ (ss_pc = "process" /\ st'.srv_decoded # st.srv_decoded) =>
             /\ st'.srv_decoded[2] = Prefix(ss_data, ss_msg_size)
             /\ IsSuffixOf(ss_data, st.session)]_vars

\* the first session ended on a message that was no pickle, with the whole
\* message after it left in data; the second connection is accepted and main
\* waits in recv with data empty
C25_Witness ==
    /\ st.accepted = 2
    /\ st.leftover = Message(<<8>>)
    /\ st.last = "accept"
    /\ ss_pc = "recv_size"
    /\ ss_data = <<>>

\* C12: strict alternation and FIFO order on one connection at a time.
\* The computer has written one reply for each frame it unpickled, in the same
\* step and before it parses the next message; the Pi has written at most one
\* frame more than it has complete replies; with the two programs on one
\* connection the computer unpickles the Pi's frames in the order they were
\* written, the Pi unpickles the computer's replies in the order they were
\* written, and at most one reply is under way; accept() returns a connection
\* only while no session is on, the connection of the session before closed.
C12_StrictAlternation ==
    [][/\ Len(st'.sc_frames) <= Len(st'.sc_replies) + 1
       /\ Len(st'.ss_replies) <= Len(st'.ss_frames)
       /\ st'.last = "replied" =>
             /\ Len(st'.ss_frames) = Len(st.ss_frames) + 1
             /\ Len(st'.ss_replies) = Len(st.ss_replies) + 1
       /\ running = {"stream_server", "stream_client"} =>
             /\ IsPrefixOf(st'.ss_frames, st'.sc_frames)
             /\ IsPrefixOf(st'.sc_replies, st'.ss_replies)
             /\ Len(st'.ss_replies) <= Len(st'.sc_replies) + 1
             /\ Len(st'.ss_frames) = Len(st'.ss_replies)
                   \/ st'.last \in {"BrokenPipeError", "TimeoutError"}
                   \/ ss_pc' \in {"accept", "exited"}
       /\ st'.accepted # st.accepted =>
             /\ ~InSession
             /\ "conn" \notin open_socks]_vars

\* the two programs on one connection: two frames went up and two replies
\* came back and were shown
C12_Witness ==
    /\ running = {"stream_server", "stream_client"}
    /\ Len(st.sc_frames) = 2
    /\ st.sc_replies = st.ss_replies
    /\ Len(st.sc_replies) = 2
    /\ st.ss_frames = st.sc_frames

ConnFaults == {"ConnectionError", "BrokenPipeError", "ConnectionResetError",
               "TimeoutError"}

\* C13 as stated: a connection fault (the peer closes, also in the middle of
\* a message, or a read or write fails) ends only the session: the stream
\* server closes the connection and is back at accept() with its listening
\* socket open; the stream client leaves its loop and makes no new connection.
C13_FaultEndsOnlySession ==
    [][/\ (st'.last \in ConnFaults /\ InSession /\ ss_pc' # ss_pc) =>
             /\ ss_pc' = "accept"
             /\ "conn" \notin open_socks'
             /\ "server_socket" \in open_socks'
       /\ (st'.last \in ConnFaults /\ sc_pc' # sc_pc) =>
             /\ sc_pc' = "stopped"
             /\ cli_end' = "closed"]_vars

\* C14 as stated (stream mode): when unpickling or transforming a received
\* frame raises, the frame is dropped and the server goes on receiving: main
\* does not end and the listening socket stays open.
C14_DecodeFailureSurvived ==
    [][(ss_pc = "process" /\ st'.last \in {"EOFError", "UnpicklingError",
                                           "cv2.error"}) =>
          /\ ss_pc' # "exited"
          /\ "server_socket" \in open_socks']_vars

\* C19 as stated: after KeyboardInterrupt in a program, every socket that
\* program opened has been closed.
C19_AllSocketsClosed ==
    \A prog \in st.interrupted : open_socks \cap AllSocketsOf(prog) = {}

----------------------------------------------------------------------------
(* SpecSend: send_frame_udp when sock.sendto raises.  `fails` is the set  *)
(* of chunk indices whose sendto raises.                                   *)

ChunkIndices(data) == 0..(TotalChunks(data) - 1)

SetMin(S) == CHOOSE x \in S : \A y \in S : x <= y

\* computer_server_lowlatency.py:84-93: the sendto of each chunk is inside
\* try / except Exception, the for loop goes on to the next chunk
ServerAttempted(data, fid, fails) == SendFrameUdp(data, fid)

\* pi_client_lowlatency.py:106-113: sendto is not guarded; the first
\* exception leaves the for loop and send_frame_udp
ClientAttempted(data, fid, fails) ==
    IF fails = {} THEN SendFrameUdp(data, fid)
    ELSE SubSeq(SendFrameUdp(data, fid), 1, SetMin(fails) + 1)

Calling(prog, fid, data, fails, attempted) ==
    [prog |-> prog, fid |-> fid, data |-> data, failed |-> fails,
     attempted |-> attempted, calls |-> tx.calls + 1]

\* computer_server_lowlatency.py:191 inside the relay loop: the call is over,
\* nothing was raised to main, the loop goes on
ServerSendFrame ==
    /\ "server" \in running
    /\ tx.calls < MaxFrames
    /\ \E data \in Payloads, fid \in {7, ID_MOD - 1} :
         \E fails \in SUBSET ChunkIndices(data) :
            /\ sent' = ServerAttempted(data, fid, fails)
            /\ tx' = Calling("server", fid, data, fails, sent')
    /\ UNCHANGED <<running, current_mode, kb_alive, srv_buffer, frame_times,
                   cli_buffer, latest_frame, frame_id, net_up, net_down, rx,
                   history, steps>>
    /\ UNCHANGED <<streamVars, lockVars, pi_main, metricVars>>

\* mutant: the counter is not reduced
NextFrameId_NoWrap(fid) == fid + 1

\* frame_id = (frame_id + 1) % 65536
NextFrameId(fid) == (fid + 1) % ID_MOD

\* pi_client_lowlatency.py:167-179, one pass of the main loop: send_frame_udp,
\* then frame_id = (frame_id + 1) % 65536.  An exception from sendto leaves
\* the while loop for `except Exception` (197) and the finally block, which
\* closes send_sock: the program ends.
ClientPass(payloads, limit) ==
    /\ "client" \in running
    /\ pi_main = "loop"
    /\ tx.calls < limit
    /\ \E data \in payloads :
         \E fails \in SUBSET ChunkIndices(data) :
            /\ tx' = Calling("client", frame_id, data, fails,
                             ClientAttempted(data, frame_id, fails))
            /\ IF fails = {}
               THEN /\ frame_id' = NextFrameId(frame_id)
                    /\ UNCHANGED <<pi_main, open_socks>>
               ELSE /\ pi_main' = "exited"
                    /\ open_socks' = open_socks \ {"pi.send_sock"}
                    /\ UNCHANGED frame_id
    /\ UNCHANGED <<running, current_mode, kb_alive, srv_buffer, frame_times,
                   sent, cli_buffer, latest_frame, net_up, net_down, rx,
                   history, steps>>
    /\ UNCHANGED <<ss_pc, ss_data, ss_msg_size, sc_pc, sc_size_data,
                   sc_msg_size, sc_frame_data, c2s, s2c, srv_end, cli_end,
                   waiting, st>>
    /\ UNCHANGED <<lockVars, metricVars>>

\* the pass for any encoded frame of at most MaxLen bytes, MaxFrames times
ClientSendFrame == ClientPass(Payloads, MaxFrames)

InitSend ==
    /\ running \in {{"server"}, {"client"}}
    /\ current_mode = "normal"
    /\ kb_alive = TRUE
    /\ srv_buffer = EmptyDict
    /\ frame_times = <<>>
    /\ sent = <<>>
    /\ cli_buffer = EmptyDict
    /\ latest_frame = None
    /\ frame_id \in {7, ID_MOD - 1}
    /\ net_up = {}
    /\ net_down = {}
    /\ rx = NoRx
    /\ history = NoHistory
    /\ steps = 0
    /\ ExtIdle

NextSend ==
    \/ ServerSendFrame
    \/ ClientSendFrame

SpecSend == InitSend /\ [][NextSend]_vars

\* C18 as stated: when the sendto of datagram i of a frame raises,
\* send_frame_udp has still given every datagram of the frame to sendto, in
\* order, and the loop that called it goes on (server and Pi).
C18_SendFailureSkipsOneChunk ==
    tx.calls > 0 =>
       /\ tx.attempted = SendFrameUdp(tx.data, tx.fid)
       /\ pi_main = "loop"

\* ceil(L / MAX_CHUNK): the least n with n * MAX_CHUNK >= L
CeilChunks(L) == CHOOSE n \in 0..L : n * MAX_CHUNK >= L /\ \A m \in 0..(n - 1) : m * MAX_CHUNK < L

RECURSIVE SumPayloadLens(_)
\* the payload lengths of datagrams dgrams, added up
SumPayloadLens(dgrams) ==
    IF dgrams = <<>> THEN 0
    ELSE Len(Suffix(dgrams[1], HEADER_LEN)) + SumPayloadLens(Tail(dgrams))

\* C22: sender chunk invariants.  For a payload of length L, every datagram
\* send_frame_udp hands to sendto is the next one in the order 0, 1, ...; it
\* carries the frame_id of the call, total_chunks = ceil(L / MAX_CHUNK),
\* total_length = L, a chunk_index below total_chunks and a payload of at
\* most MAX_CHUNK bytes; and a call in which no sendto raises emits exactly
\* ceil(L / MAX_CHUNK) datagrams whose payload lengths sum to L (as does
\* every call of the server, which goes on after a sendto that raised).
C22_SenderChunkInvariants ==
    tx.calls > 0 =>
       LET L == Len(tx.data)
           total == CeilChunks(L)
       IN /\ \A k \in DOMAIN tx.attempted :
                LET h == Unpack(Prefix(tx.attempted[k], HEADER_LEN))
                    payload == Suffix(tx.attempted[k], HEADER_LEN)
                IN /\ Len(tx.attempted[k]) >= HEADER_LEN
                   /\ h.frame_id = tx.fid
                   /\ h.chunk_id = k - 1
                   /\ h.total_chunks = total
                   /\ h.data_len = L
                   /\ h.chunk_id < h.total_chunks
                   /\ Len(payload) <= MAX_CHUNK
          /\ (tx.failed = {} \/ tx.prog = "server") =>
                /\ Len(tx.attempted) = total
                /\ SumPayloadLens(tx.attempted) = L

\* the second call was given a payload of exactly two full chunks, which went
\* out as two datagrams, the second one full, no sendto raising
C22_Witness ==
    /\ tx.calls = 2
    /\ tx.failed = {}
    /\ Len(tx.data) = 2 * MAX_CHUNK
    /\ Len(tx.attempted) = 2
    /\ Len(Suffix(tx.attempted[2], HEADER_LEN)) = MAX_CHUNK

----------------------------------------------------------------------------
(* SpecCounter: pi_client_lowlatency.py from its start, frame after frame  *)
(* until frame_id has gone once around.                                    *)

\* an encoded frame larger than one chunk
LongRunPayloads == {<<1, 2, 3, 4>>}

\* one pass of the main loop, as often as it takes frame_id to wrap and go on
ClientSendLong == ClientPass(LongRunPayloads, ID_MOD + MaxFrames)

InitCounter ==
    /\ Init
    /\ running = {"client"}

NextCounter ==
    \/ ClientSendLong

SpecCounter == InitCounter /\ [][NextCounter]_vars

\* C24: the Pi's frame_id starts at 0 and is always in 0..65535.  Each frame
\* passed to send_frame_udp goes out under the current frame_id, in every
\* one of its datagrams; when the call returns frame_id is one more, 0 after
\* 65535; and the next frame goes out under a different frame_id.
C24_FrameIdAdvances ==
    /\ frame_id = 0
    /\ [][/\ frame_id' \in 0..65535
          /\ tx'.calls # tx.calls =>
                /\ tx'.fid = frame_id
                /\ \A k \in DOMAIN tx'.attempted :
                      FrameIdOf(tx'.attempted[k]) = frame_id
                /\ tx.calls > 0 => tx'.fid # tx.fid
                /\ IF tx'.failed = {}
                   THEN frame_id' = IF frame_id = 65535 THEN 0
                                    ELSE frame_id + 1
                   ELSE pi_main' = "exited"
          /\ tx'.calls = tx.calls => frame_id' = frame_id]_vars

\* the frame sent under 65535 is followed by one sent under 0, in two
\* datagrams, and frame_id is 1
C24_Witness ==
    /\ tx.calls = 65537
    /\ tx.fid = 0
    /\ Len(tx.attempted) = 2
    /\ tx.failed = {}
    /\ frame_id = 1

----------------------------------------------------------------------------
(* parse_voice_command (computer_server.py:133-155).  A text is a sequence *)
(* of one-character strings.                                               *)

UpperCase == <<"A", "B", "C", "D", "E", "F", "G", "H", "I", "J", "K", "L", "M", "N", "O", "P", "Q", "R", "S", "T", "U", "V", "W", "X", "Y", "Z">>
LowerCase == <<"a", "b", "c", "d", "e", "f", "g", "h", "i", "j", "k", "l", "m", "n", "o", "p", "q", "r", "s", "t", "u", "v", "w", "x", "y", "z">>
\* str.lower()
LowerChar(c) ==
    IF \E i \in DOMAIN UpperCase : UpperCase[i] = c
    THEN LowerCase[CHOOSE i \in DOMAIN UpperCase : UpperCase[i] = c]
    ELSE c

Lower(text) == [i \in 1..Len(text) |-> LowerChar(text[i])]

IsSpace(c) == c \in {" ", "\t", "\n"}

RECURSIVE LStrip(_)
LStrip(text) ==
    IF text # <<>> /\ IsSpace(text[1]) THEN LStrip(Tail(text)) ELSE text

RECURSIVE RStrip(_)
RStrip(text) ==
    IF text # <<>> /\ IsSpace(text[Len(text)])
    THEN RStrip(SubSeq(text, 1, Len(text) - 1)) ELSE text

\* str.strip()
Strip(text) == RStrip(LStrip(text))

\* keyword in text: keyword is a substring of text
Contains(text, keyword) ==
    \E i \in 1..(Len(text) - Len(keyword) + 1) :
       SubSeq(text, i, i + Len(keyword) - 1) = keyword

\* mode_keywords, in the order the dict is written (and iterated)
ModeKeywords ==
    <<[mode |-> "normal",
       keywords |-> <<<<"n", "o", "r", "m", "a", "l">>,
                      <<"r", "e", "g", "u", "l", "a", "r">>,
                      <<"s", "t", "a", "n", "d", "a", "r", "d">>,
                      <<"d", "e", "f", "a", "u", "l", "t">>,
                      <<"1">>,
                      <<"o", "n", "e">>,
                      <<"w", "o", "n">>>>],
      [mode |-> "canny",
       keywords |-> <<<<"c", "a", "n", "n", "y">>,
                      <<"e", "d", "g", "e">>,
                      <<"e", "d", "g", "e", "s">>,
                      <<"c", "a", "n", "d", "y">>,
                      <<"2">>,
                      <<"t", "w", "o">>,
                      <<"t", "o">>,
                      <<"t", "o", "o">>>>],
      [mode |-> "night",
       keywords |-> <<<<"n", "i", "g", "h", "t">>,
                      <<"n", "i", "g", "h", "t", " ", "v", "i", "s", "i", "o", "n">>,
                      <<"g", "r", "e", "e", "n">>,
                      <<"d", "a", "r", "k">>,
                      <<"3">>,
                      <<"t", "h", "r", "e", "e">>,
                      <<"t", "r", "e", "e">>>>],
      [mode |-> "thermal",
       keywords |-> <<<<"t", "h", "e", "r", "m", "a", "l">>,
                      <<"h", "e", "a", "t">>,
                      <<"i", "n", "f", "r", "a", "r", "e", "d">>,
                      <<"t", "h", "e", "r", "m", "o">>,
                      <<"4">>,
                      <<"f", "o", "u", "r">>,
                      <<"f", "o", "r">>>>]>>

\* mutant: every text is taken for a command
HasCommandWord_Always(text) == TRUE

\* "mode" in text or "camera" in text or any(str(i) in text for i in range(1, 5))
HasCommandWord(text) ==
    \/ Contains(text, <<"m", "o", "d", "e">>)
    \/ Contains(text, <<"c", "a", "m", "e", "r", "a">>)
    \/ \E d \in {"1", "2", "3", "4"} : Contains(text, <<d>>)

\* some keyword of the i-th entry is in text
Matches(text, i) ==
    \E k \in DOMAIN ModeKeywords[i].keywords :
       Contains(text, ModeKeywords[i].keywords[k])

\* mutant: the last entry of the table that matches
FirstHit_Last(hits) == CHOOSE i \in hits : \A j \in hits : i >= j

\* for mode, keywords in mode_keywords.items(): the first entry that matches
\* returns
FirstHit(hits) == CHOOSE i \in hits : \A j \in hits : i <= j

\* the mode returned, Some(mode), or None
ParseVoiceCommand(text) ==
    LET t == Strip(Lower(text))
        hits == {i \in DOMAIN ModeKeywords : Matches(t, i)}
    IN IF HasCommandWord(t) /\ hits # {}
       THEN Some(ModeKeywords[FirstHit(hits)].mode)
       ELSE None

\* every keyword of the table
Aliases ==
    UNION {Range(ModeKeywords[i].keywords) : i \in DOMAIN ModeKeywords}

\* "mode " before a keyword, the documented form of a voice command (line 28)
ModeWord == <<"m", "o", "d", "e", " ">>

NightVisionSentence == <<"l", "e", "t", "'", "s", " ", "u", "s", "e", " ", "n", "i", "g", "h", "t", " ", "v", "i", "s", "i", "o", "n", " ", "m", "o", "d", "e">>

\* the transcripts the recognizer may return: every keyword alone, every
\* keyword after "mode ", the sentence of the specification, and texts with
\* no keyword, with capitals and blanks, with keywords of two modes
TextMenu ==
    Aliases \cup {ModeWord \o a : a \in Aliases} \cup
    {NightVisionSentence, <<>>, <<"h", "e", "l", "l", "o">>, <<"m", "o", "d", "e">>, <<" ", " ", "C", "a", "m", "e", "r", "a", " ", "M", "o", "d", "e", " ", "T", "H", "E", "R", "M", "A", "L", " ">>,
     <<"s", "w", "i", "t", "c", "h", " ", "t", "o", " ", "t", "h", "e", "r", "m", "a", "l", " ", "m", "o", "d", "e">>,
     <<"3", " ", "o", "r", " ", "4">>}

\* parse_voice_command applied to each transcript of the menu
Transcripts == [text \in TextMenu |-> ParseVoiceCommand(text)]

----------------------------------------------------------------------------
(* SpecMode: current_mode and mode_lock, statement by statement.  The main *)
(* thread calls process_frame for each frame; the control thread is        *)
(* keyboard_control in computer_server_lowlatency.py and                   *)
(* audio_server_thread in computer_server.py.                              *)

\* mutant: `with mode_lock` enters although the lock is held
LockFree_Ignored == TRUE

\* threading.Lock: acquire blocks until the lock is free
LockFree == mode_lock = "free"

Access(thread, kind) == [thread |-> thread, kind |-> kind, holder |-> mode_lock]

\* logging.info(f"Mode: {current_mode}") of computer_server_lowlatency.py:146,
\* followed by kb_thread.start() (150); logging.info(f"Processing mode:
\* {current_mode}") of computer_server.py:247, after audio_thread.start()
MainStartupLog ==
    /\ pf_pc = "start"
    /\ pf_pc' = "recv"
    /\ ctl_pc' = IF "server" \in running THEN "wait" ELSE ctl_pc
    /\ ml' = [ml EXCEPT !.access = Access("main", "read")]
    /\ UNCHANGED <<mode_lock, pf_mode, ctl_cmd>>
    /\ UNCHANGED <<dgramVars, streamVars, sendVars, metricVars>>

\* the blocking receive returned a frame and main calls process_frame(frame)
\* (computer_server_lowlatency.py:161-188, computer_server.py:265-288)
MainReceive ==
    /\ pf_pc = "recv"
    /\ ml.frames < MaxFrames
    /\ pf_pc' = "acquire"
    /\ ml' = [ml EXCEPT !.frames = @ + 1, !.held = {current_mode},
                        !.reads = 0, !.applied = "-"]
    /\ UNCHANGED <<mode_lock, pf_mode, ctl_pc, ctl_cmd>>
    /\ UNCHANGED <<dgramVars, streamVars, sendVars, metricVars>>

\* process_frame: with mode_lock:
PfAcquire ==
    /\ pf_pc = "acquire"
    /\ LockFree
    /\ mode_lock' = "main"
    /\ pf_pc' = "locked"
    /\ UNCHANGED <<pf_mode, ctl_pc, ctl_cmd, ml>>
    /\ UNCHANGED <<dgramVars, streamVars, sendVars, metricVars>>

\* process_frame: mode = current_mode, and the end of the with block
PfRead ==
    /\ pf_pc = "locked"
    /\ pf_mode' = current_mode
    /\ mode_lock' = "free"
    /\ pf_pc' = "transform"
    /\ ml' = [ml EXCEPT !.access = Access("main", "read"), !.reads = @ + 1]
    /\ UNCHANGED <<ctl_pc, ctl_cmd>>
    /\ UNCHANGED <<dgramVars, streamVars, sendVars, metricVars>>

\* mutant: the dispatch reads the global again
Processor_Current(mode) == current_mode

\* processors.get(mode, process_normal): the processor of the mode read,
\* process_normal for a value that is no key of processors
Processor(mode) == IF mode \in Modes THEN mode ELSE "normal"

\* processors.get(mode, process_normal)(frame), then the reply is sent;
\* computer_server_lowlatency.py goes on with frame_times.append (194) and,
\* when 2 s have passed (`due`) and len(frame_times) > 1, logs
\* f"... Mode: {current_mode}" (197-202)
MainTransform ==
    /\ pf_pc = "transform"
    /\ pf_pc' = "recv"
    /\ IF "server" \in running
       THEN /\ frame_times' = DequeAppend(frame_times, ml.frames)
            /\ \E due \in BOOLEAN :
                 ml' = IF due /\ Len(frame_times') > 1
                       THEN [ml EXCEPT !.access = Access("main", "read"),
                                       !.applied = Processor(pf_mode)]
                       ELSE [ml EXCEPT !.applied = Processor(pf_mode)]
       ELSE /\ ml' = [ml EXCEPT !.applied = Processor(pf_mode)]
            /\ UNCHANGED frame_times
    /\ UNCHANGED <<mode_lock, pf_mode, ctl_pc, ctl_cmd>>
    /\ UNCHANGED <<running, current_mode, kb_alive, srv_buffer, sent,
                   cli_buffer, latest_frame, frame_id, net_up, net_down, rx,
                   history, steps>>
    /\ UNCHANGED <<streamVars, sendVars, metricVars>>

\* keyboard_control: key = input() returned, or raised ("EOF": except: break)
KbInput ==
    /\ "server" \in running
    /\ ctl_pc = "wait"
    /\ \E key \in KeyMenu :
         /\ ml' = [ml EXCEPT !.kind = "key", !.key = key,
                             !.handled = (key = "EOF")]
         /\ IF key = "EOF"
            THEN /\ ctl_pc' = "done"
                 /\ kb_alive' = FALSE
                 /\ UNCHANGED ctl_cmd
            ELSE /\ ctl_pc' = "acquire"
                 /\ ctl_cmd' = key
                 /\ UNCHANGED kb_alive
    /\ UNCHANGED <<mode_lock, pf_pc, pf_mode>>
    /\ UNCHANGED <<running, current_mode, srv_buffer, frame_times, sent,
                   cli_buffer, latest_frame, frame_id, net_up, net_down, rx,
                   history, steps>>
    /\ UNCHANGED <<streamVars, sendVars, metricVars>>

\* what recognize_google can raise (computer_server.py:224-228)
RecognizerErrors == {"UnknownValueError", "RequestError"}

\* audio_server_thread, lines 179-228: a whole audio message was received;
\* text = recognizer.recognize_google(audio); new_mode =
\* parse_voice_command(text); without a new_mode, and when the recognizer
\* raises, conn.sendall(b"OK") and the thread waits for the next message
AudioInput ==
    /\ "stream_server" \in running
    /\ ctl_pc = "wait"
    /\ \/ \E text \in TextMenu :
            LET new_mode == Transcripts[text]
            IN /\ ml' = [ml EXCEPT !.kind = "text", !.text = text,
                                   !.parsed = new_mode,
                                   !.handled = (new_mode = None)]
               /\ IF new_mode = None
                  THEN UNCHANGED <<ctl_pc, ctl_cmd>>
                  ELSE /\ ctl_pc' = "acquire"
                       /\ ctl_cmd' = new_mode[1]
       \/ \E exc \in RecognizerErrors :
            /\ ml' = [ml EXCEPT !.kind = exc, !.handled = TRUE]
            /\ UNCHANGED <<ctl_pc, ctl_cmd>>
    /\ UNCHANGED <<mode_lock, pf_pc, pf_mode>>
    /\ UNCHANGED <<dgramVars, streamVars, sendVars, metricVars>>

\* with mode_lock: (computer_server_lowlatency.py:112, computer_server.py:215)
CtlAcquire ==
    /\ ctl_pc = "acquire"
    /\ LockFree
    /\ mode_lock' = "ctl"
    /\ ctl_pc' = "locked"
    /\ UNCHANGED <<pf_pc, pf_mode, ctl_cmd, ml>>
    /\ UNCHANGED <<dgramVars, streamVars, sendVars, metricVars>>

\* the body of the with block: the if chain of keyboard_control (113-126), or
\* old_mode = current_mode; current_mode = new_mode (computer_server.py:216-217)
CtlWrite ==
    /\ ctl_pc = "locked"
    /\ ctl_pc' = "written"
    /\ IF "server" \in running
       THEN /\ KeyboardStep(ctl_cmd)
            /\ ml' = IF ctl_cmd \in {"1", "2", "3", "4"}
                     THEN [ml EXCEPT !.access = Access("ctl", "write"),
                                     !.held = @ \cup {current_mode'}]
                     ELSE ml
       ELSE /\ current_mode' = ctl_cmd
            /\ ml' = [ml EXCEPT !.access = Access("ctl", "write"),
                                !.held = @ \cup {current_mode'}]
            /\ UNCHANGED kb_alive
    /\ UNCHANGED <<mode_lock, pf_pc, pf_mode, ctl_cmd>>
    /\ UNCHANGED <<running, srv_buffer, frame_times, sent, cli_buffer,
                   latest_frame, frame_id, net_up, net_down, rx, history,
                   steps>>
    /\ UNCHANGED <<streamVars, sendVars, metricVars>>

\* the end of the with block; keyboard_control is back at input(), or has
\* left its loop (break on 'q'); the audio thread goes on to its reply
CtlRelease ==
    /\ ctl_pc = "written"
    /\ mode_lock' = "free"
    /\ ctl_pc' = IF "server" \in running
                 THEN (IF kb_alive THEN "wait" ELSE "done")
                 ELSE "reply"
    /\ ml' = [ml EXCEPT !.last_set = current_mode,
                        !.handled = ("server" \in running)]
    /\ UNCHANGED <<pf_pc, pf_mode, ctl_cmd>>
    /\ UNCHANGED <<dgramVars, streamVars, sendVars, metricVars>>

\* conn.sendall(f"MODE:{new_mode}".encode()) (computer_server.py:220)
AudioReply ==
    /\ ctl_pc = "reply"
    /\ ctl_pc' = "wait"
    /\ ml' = [ml EXCEPT !.handled = TRUE]
    /\ UNCHANGED <<mode_lock, pf_pc, pf_mode, ctl_cmd>>
    /\ UNCHANGED <<dgramVars, streamVars, sendVars, metricVars>>

InitMode ==
    /\ running \in {{"server"}, {"stream_server"}}
    /\ current_mode = "normal"
    /\ kb_alive = TRUE
    /\ srv_buffer = EmptyDict
    /\ frame_times = <<>>
    /\ sent = <<>>
    /\ cli_buffer = EmptyDict
    /\ latest_frame = None
    /\ frame_id = 0
    /\ net_up = {}
    /\ net_down = {}
    /\ rx = NoRx
    /\ history = NoHistory
    /\ steps = 0
    /\ StreamIdle
    \* the Pi's audio connection has been accepted (computer_server.py:175)
    /\ open_socks = OpenAtStart(running) \cup
                    (IF "stream_server" \in running THEN {"audio_conn"} ELSE {})
    /\ mode_lock = "free"
    /\ pf_pc = "start"
    /\ pf_mode = "-"
    \* audio_thread.start() is line 238, kb_thread.start() comes after the
    \* first log line
    /\ ctl_pc = IF "stream_server" \in running THEN "wait" ELSE "unstarted"
    /\ ctl_cmd = "-"
    /\ ml = NoModeObs
    /\ SendIdle
    /\ MetricsIdle

NextMode ==
    \/ MainStartupLog
    \/ MainReceive
    \/ PfAcquire
    \/ PfRead
    \/ MainTransform
    \/ KbInput
    \/ AudioInput
    \/ CtlAcquire
    \/ CtlWrite
    \/ CtlRelease
    \/ AudioReply

SpecMode == InitMode /\ [][NextMode]_vars

----------------------------------------------------------------------------
(* Claims checked under SpecMode *)

ModeKeys == {"1", "2", "3", "4"}

\* the body of the control thread's with block is run
Setting == ctl_pc = "locked" /\ ctl_pc' = "written"

\* the audio thread has a new recognizer result
NewAudio ==
    /\ "stream_server" \in running
    /\ ctl_pc = "wait"
    /\ ml'.kind # ml.kind \/ ml'.text # ml.text

\* C15: current_mode starts as normal and is always one of normal, canny,
\* night, thermal.  A key other than 1-4 goes through keyboard_control's with
\* block without a change of current_mode; a transcript for which
\* parse_voice_command returns None, and audio the recognizer cannot
\* recognize, never reach the with block of audio_server_thread; and
\* current_mode changes only in a with block entered for a key 1-4 or for a
\* mode that parse_voice_command returned.
C15_ModeAlwaysValid ==
    /\ current_mode = "normal"
    /\ [][/\ current_mode' \in Modes
          /\ (Setting /\ "server" \in running /\ ctl_cmd \notin ModeKeys) =>
                current_mode' = current_mode
          /\ (NewAudio /\ (ml'.kind \in RecognizerErrors \/ ml'.parsed = None)) =>
                /\ current_mode' = current_mode
                /\ ctl_pc' = "wait"
          /\ current_mode' # current_mode =>
                /\ Setting
                /\ "server" \in running => ctl_cmd \in ModeKeys
                /\ "stream_server" \in running =>
                      ml.parsed = Some(current_mode')]_vars

\* with the mode at thermal the recognizer returned "hello", for which
\* parse_voice_command returned None, and the audio thread is back at recv
C15_Witness ==
    /\ "stream_server" \in running
    /\ current_mode = "thermal"
    /\ ml.kind = "text"
    /\ ml.text = <<"h", "e", "l", "l", "o">>
    /\ ml.parsed = None
    /\ ml.handled
    /\ ctl_pc = "wait"

\* the mode whose keyword list holds alias
ModeOfAlias(alias) ==
    ModeKeywords[CHOOSE i \in DOMAIN ModeKeywords :
                    alias \in Range(ModeKeywords[i].keywords)].mode

HasDigit(text) == \E i \in DOMAIN text : text[i] \in ModeKeys

\* some keyword of the table is in the text as the function sees it
AnyAlias(text) == \E a \in Aliases : Contains(Strip(Lower(text)), a)

\* C16 as stated: for each alias a in the keyword table of mode m,
\* parse_voice_command(a) returns m; "let's use night vision mode" returns
\* night; a text in which no alias occurs returns None.
C16_EveryAliasAlone ==
    ml.kind = "text" =>
       /\ ml.text \in Aliases => ml.parsed = Some(ModeOfAlias(ml.text))
       /\ ml.text = NightVisionSentence => ml.parsed = Some("night")
       /\ ~AnyAlias(ml.text) => ml.parsed = None

\* C16, amended: for each alias a in the keyword table of mode m,
\* parse_voice_command("mode " + a) returns m; parse_voice_command(a) returns
\* m when a is one of the digits 1-4 and None for every other alias, which
\* holds none of "mode", "camera", 1-4; "let's use night vision mode" returns
\* night; a text in which no alias occurs returns None.
C16_AliasAfterModeWord ==
    ml.kind = "text" =>
       /\ \A a \in Aliases :
             /\ ml.text = ModeWord \o a => ml.parsed = Some(ModeOfAlias(a))
             /\ ml.text = a =>
                   ml.parsed = IF HasDigit(a) THEN Some(ModeOfAlias(a))
                               ELSE None
       /\ ml.text = NightVisionSentence => ml.parsed = Some("night")
       /\ ~AnyAlias(ml.text) => ml.parsed = None

\* the recognizer returned "mode infrared" and parse_voice_command returned
\* thermal, which the audio thread has set
C16_Witness ==
    /\ ml.kind = "text"
    /\ ml.text = ModeWord \o <<"i", "n", "f", "r", "a", "r", "e", "d">>
    /\ ml.parsed = Some("thermal")
    /\ current_mode = "thermal"
    /\ ml.handled

\* the keywords of mode m
AliasesOf(m) ==
    UNION {Range(ModeKeywords[i].keywords) :
              i \in {j \in DOMAIN ModeKeywords : ModeKeywords[j].mode = m}}

\* some keyword of mode m is a substring of t
HasAliasOf(t, m) == \E a \in AliasesOf(m) : Contains(t, a)

\* None unless the lower-cased text holds "mode", "camera" or a digit 1-4;
\* else the first of normal, canny, night, thermal with a keyword in it
FirstModeInOrder(text) ==
    LET t == Lower(text)
    IN IF ~(\/ Contains(t, <<"m", "o", "d", "e">>)
            \/ Contains(t, <<"c", "a", "m", "e", "r", "a">>)
            \/ HasDigit(t))
       THEN None
       ELSE IF HasAliasOf(t, "normal") THEN Some("normal")
       ELSE IF HasAliasOf(t, "canny") THEN Some("canny")
       ELSE IF HasAliasOf(t, "night") THEN Some("night")
       ELSE IF HasAliasOf(t, "thermal") THEN Some("thermal")
       ELSE None

\* C26: parse_voice_command resolves ambiguity by table order and substring
\* match.  It returns None unless the lower-cased text holds "mode",
\* "camera" or one of the digits 1-4; else the first mode in the order
\* normal, canny, night, thermal one of whose keywords is a substring of the
\* text (None when there is none): a text with "to" and "thermal" and a
\* command word yields canny.
C26_FirstModeInTableOrder ==
    ml.kind = "text" =>
       /\ ml.parsed = FirstModeInOrder(ml.text)
       /\ (/\ Contains(Lower(ml.text), <<"t", "o">>)
           /\ Contains(Lower(ml.text), <<"t", "h", "e", "r", "m", "a", "l">>)
           /\ ml.parsed # None) =>
              ml.parsed \in {Some("normal"), Some("canny")}

\* the recognizer returned "switch to thermal mode": parse_voice_command
\* returned canny for its "to", and the audio thread has set canny
C26_Witness ==
    /\ ml.kind = "text"
    /\ ml.text = <<"s", "w", "i", "t", "c", "h", " ", "t", "o", " ", "t", "h", "e", "r", "m", "a", "l", " ", "m", "o", "d", "e">>
    /\ ml.parsed = Some("canny")
    /\ current_mode = "canny"
    /\ ml.handled

\* C17: mode updates are atomic and the last writer wins.  The value
\* process_frame reads is the value written by the last set whose with block
\* has been left (or the initial value), also while the control thread is
\* waiting for the lock or has a set under way; and whenever no set is under
\* way current_mode is the value written by the set whose with block was left
\* last.
C17_AtomicLastWriterWins ==
    [][/\ (pf_pc = "locked" /\ pf_pc' = "transform") =>
             /\ pf_mode' = ml.last_set
             /\ mode_lock = "main"
       /\ mode_lock' # "ctl" => current_mode' = ml'.last_set
       /\ ctl_pc' \in {"locked", "written"} => mode_lock' = "ctl"]_vars

\* process_frame has read night, the value of the last completed set, and
\* transforms with it while the control thread has written thermal and not
\* yet left its with block
C17_Witness ==
    /\ pf_pc = "transform"
    /\ pf_mode = "night"
    /\ ml.last_set = "night"
    /\ ctl_pc = "written"
    /\ mode_lock = "ctl"
    /\ current_mode = "thermal"

\* C20 as stated: every read and write of current_mode is made by a thread
\* that holds mode_lock; and mode_lock is held by no thread that is in a
\* blocking network call, waits for control input or transforms a frame.
C20_LockDiscipline ==
    /\ ml.access # NoAccess => ml.access.holder = ml.access.thread
    /\ mode_lock = "main" => pf_pc = "locked"
    /\ mode_lock = "ctl" => ctl_pc \in {"locked", "written"}

\* C21: each frame is transformed with one mode snapshot.  process_frame
\* reads current_mode once for a frame; the processor applied is the one of
\* the value read, whatever the control thread has written since; that value
\* is one current_mode held between the receipt of the frame and the sending
\* of its result; and with no write since the receipt it is the value of the
\* set completed last before the receipt.
C21_OneModeSnapshot ==
    [][/\ pf_pc' = "transform" =>
             /\ ml'.reads = 1
             /\ pf_mode' \in ml'.held
       /\ (pf_pc = "transform" /\ pf_pc' = "transform") => pf_mode' = pf_mode
       /\ (pf_pc = "transform" /\ pf_pc' = "recv") =>
             /\ ml'.applied = pf_mode
             /\ ml'.reads = 1
             /\ ml'.held = ml.held
       /\ (pf_pc = "recv" /\ pf_pc' = "acquire" /\ ctl_pc \notin {"written"}) =>
             ml'.held = {ml.last_set}]_vars

\* a frame was received with the mode at canny and transformed as canny,
\* although thermal was set while the transform ran
C21_Witness ==
    /\ pf_pc = "recv"
    /\ ml.applied = "canny"
    /\ ml.held = {"canny", "thermal"}
    /\ current_mode = "thermal"
    /\ ml.last_set = "thermal"

----------------------------------------------------------------------------
(* SpecMetrics: the FPS window of computer_server_lowlatency.py main       *)
(* (lines 155-156, 193-202).  Time is in whole seconds; `steps` is the     *)
(* last reading of time.time().  The loop is followed from a start-up and  *)
(* from windows that earlier frames, one a second, have filled.            *)

\* frame_times after n frames completed at the seconds 1..n
Window(n) == [i \in 1..n |-> i]

\* seconds that pass before frame_times.append, and between it and the
\* time.time() of line 197
AppendDelays == {0, 1}

CheckDelays == {0, FPS_PERIOD + 1}

\* a frame of one chunk, the first of three chunks, a short datagram
MetricsRxMenu == {Pack(7, 0, 1, 1) \o <<3>>, Pack(7, 0, 3, 5) \o <<1, 1>>, <<>>}

\* lines 197-202 with frame_times as the append left it and `now` the
\* time.time() of line 197
FpsOutcome(times, now) ==
    IF ~(now - last_fps_print > FPS_PERIOD) THEN "not_due"
    ELSE IF ~(Len(times) > 1) THEN "too_few"
    ELSE IF times[Len(times)] - times[1] = 0 THEN "ZeroDivisionError"
    ELSE "logged"

\* fps = len(frame_times) / (frame_times[-1] - frame_times[0]), as the pair
\* <<numerator, denominator>>
Fps(times) == <<Len(times), times[Len(times)] - times[1]>>

ServerRecvTimed ==
    /\ "server" \in running
    /\ fps.iterations < MaxSteps
    /\ \E data \in MetricsRxMenu, d1 \in AppendDelays, d2 \in CheckDelays :
         LET t_append == steps + d1
             now      == t_append + d2
             times    == DequeAppend(frame_times, t_append)
             fps_log  == FpsOutcome(times, now)
         IN /\ ServerIterationAt(data, {<<9>>}, t_append, fps_log)
            /\ steps' = now
            \* line 202 is reached unless the division raised
            /\ last_fps_print' =
                  IF rx'.outcome = "ok" /\ fps_log \in {"too_few", "logged"}
                  THEN now ELSE last_fps_print
            /\ fps' = [iterations |-> fps.iterations + 1,
                       report |-> IF rx'.outcome = "ok" /\ fps_log = "logged"
                                  THEN Some(Fps(times)) ELSE None]
    /\ UNCHANGED <<running, current_mode, kb_alive, cli_buffer, latest_frame,
                   frame_id, net_up, net_down, history>>
    /\ UNCHANGED <<streamVars, lockVars, sendVars>>

InitMetrics ==
    /\ running = {"server"}
    /\ current_mode = "normal"
    /\ kb_alive = TRUE
    /\ srv_buffer = EmptyDict
    /\ \E n \in {0, 1, FPS_WINDOW - 1, FPS_WINDOW} :
          /\ frame_times = Window(n)
          /\ steps = n
          /\ last_fps_print = n
    /\ sent = <<>>
    /\ cli_buffer = EmptyDict
    /\ latest_frame = None
    /\ frame_id = 0
    /\ net_up = {}
    /\ net_down = {}
    /\ rx = NoRx
    /\ history = NoHistory
    /\ StreamIdle
    /\ open_socks = OpenAtStart(running)
    /\ LockIdle
    /\ SendIdle
    /\ fps = NoFps

NextMetrics ==
    \/ ServerRecvTimed
    \/ ServerTimeout

SpecMetrics == InitMetrics /\ [][NextMetrics]_vars

----------------------------------------------------------------------------
(* Claims checked under SpecMetrics *)

\* the last n elements of s
LastN(s, n) == SubSeq(s, IF Len(s) > n THEN Len(s) - n + 1 ELSE 1, Len(s))

\* the iteration decoded and processed the frame and sent its result
Completed == rx'.reply # None

\* C23: the metrics window holds at most 30 timestamps.  An iteration that
\* decoded, processed and sent a frame appends one timestamp and keeps the
\* 30 most recent; any other iteration leaves the window as it is.  An FPS
\* value is logged only with at least 2 timestamps in the window, and it is
\* their number over the newest minus the oldest, never zero.
C23_MetricsWindow ==
    /\ Len(frame_times) <= FPS_WINDOW
    /\ [][fps'.iterations # fps.iterations =>
            /\ Len(frame_times') <= FPS_WINDOW
            /\ IF Completed
               THEN \E t \in steps..steps' :
                       frame_times' = LastN(Append(frame_times, t), FPS_WINDOW)
               ELSE frame_times' = frame_times
            /\ Len(frame_times') < 2 => fps'.report = None
            /\ fps'.report # None =>
                  /\ Len(frame_times') >= 2
                  /\ fps'.report[1][1] = Len(frame_times')
                  /\ fps'.report[1][2] =
                        frame_times'[Len(frame_times')] - frame_times'[1]
                  /\ fps'.report[1][1] # 0
                  /\ fps'.report[1][2] # 0]_vars

\* with the window full a further frame was completed: the oldest timestamp
\* is gone and FPS was logged as 30 over the 31 s the window spans
C23_Witness ==
    /\ Len(frame_times) = FPS_WINDOW
    /\ frame_times[1] = 3
    /\ fps.report = Some(<<FPS_WINDOW, 31>>)

----------------------------------------------------------------------------
(* SpecDup: SpecRoundTrip on a network that may deliver a datagram more    *)
(* than once (UDP): a datagram that has been delivered is in flight again. *)

\* every datagram of the calls of send_frame_udp in `sendings`
DatagramsOf(sendings) ==
    UNION {Range(sendings[i].dgrams) : i \in DOMAIN sendings}

\* deliveries made or due beyond one for each datagram sent
Duplicated ==
    (Len(history.srv_arrivals) + Cardinality(net_up)
        - Cardinality(DatagramsOf(history.up)))
    + (Len(history.cli_arrivals) + Cardinality(net_down)
        - Cardinality(DatagramsOf(history.down)))

NetDuplicate ==
    /\ Duplicated < MaxDups
    /\ \/ /\ \E d \in DatagramsOf(history.up) \ net_up :
               net_up' = net_up \cup {d}
          /\ UNCHANGED net_down
       \/ /\ \E d \in DatagramsOf(history.down) \ net_down :
               net_down' = net_down \cup {d}
          /\ UNCHANGED net_up
    /\ UNCHANGED <<running, current_mode, kb_alive, srv_buffer, frame_times,
                   sent, cli_buffer, latest_frame, frame_id, rx, history,
                   steps>>
    /\ UNCHANGED extVars

\* encoded frames of one, two and three chunks of 2 bytes
DupPayloads == {<<1>>, <<1, 2, 1>>, <<1, 2, 1, 2, 1>>}

CaptureForDup == Capture(DupPayloads)

NextDup ==
    \/ CaptureForDup
    \/ ServerDeliver
    \/ ClientDeliver
    \/ NetDuplicate

SpecDup == InitRoundTrip /\ [][NextDup]_vars

----------------------------------------------------------------------------
(* Claims checked under SpecDup *)

\* one receive-loop iteration on a datagram with header h and payload chunk,
\* buffer buf before and bufn after, window w
FreshAfterDeletion(buf, bufn, h, chunk, outcome, frame, w) ==
    LET fid == h.frame_id
        had == IF fid \in DOMAIN buf THEN DOMAIN buf[fid] ELSE {}
    IN \* a completed frame that was decoded (or was no image) is deleted
       /\ outcome \in {"ok", "none"} => fid \notin DOMAIN bufn
       \* with no entry for the frame_id the chunk is alone in its entry
       /\ fid \notin DOMAIN buf =>
             /\ (h.total_chunks = 1 /\ h.chunk_id = 0) =>
                   frame = Some(Prefix(chunk, h.data_len))
             /\ h.total_chunks # 1 =>
                   /\ outcome = "stored"
                   /\ DOMAIN bufn[fid] = {h.chunk_id}
                   /\ bufn[fid][h.chunk_id] = chunk
       \* a frame is reassembled from a full set of indices in the entry
       /\ frame # None => had \cup {h.chunk_id} = 0..(h.total_chunks - 1)
       \* an entry leaves the buffer by its completion or by eviction only
       /\ \A g \in DOMAIN buf \ DOMAIN bufn :
             /\ outcome \in {"ok", "none"}
             /\ g = fid \/ g < fid - w

\* C27: a chunk that arrives for a frame_id with no entry, its entry having
\* been completed and deleted, starts an entry holding only that chunk.  A
\* single-chunk datagram delivered again is reassembled again; the computer
\* has answered a frame_id at most once for every full set of its chunks
\* that arrived; and the entry a late duplicate started stays in the buffer
\* until the frame completes again or a completion evicts it.
C27_FreshEntryAfterDeletion ==
    [][(Received /\ Len(rx'.data) >= HEADER_LEN) =>
          /\ IF rx'.prog = "server"
             THEN FreshAfterDeletion(srv_buffer, srv_buffer',
                                     Unpack(Prefix(rx'.data, HEADER_LEN)),
                                     Suffix(rx'.data, HEADER_LEN),
                                     rx'.outcome, rx'.frame, SERVER_WINDOW)
             ELSE FreshAfterDeletion(cli_buffer, cli_buffer',
                                     Unpack(Prefix(rx'.data, HEADER_LEN)),
                                     Suffix(rx'.data, HEADER_LEN),
                                     rx'.outcome, rx'.frame, CLIENT_WINDOW)
          /\ history'.up # <<>> =>
                Len(history'.down) * Len(history'.up[1].dgrams) <=
                   Len(history'.srv_arrivals)]_vars

\* a frame of several chunks was reassembled and answered by the computer and
\* its entry deleted; then one of its datagrams arrived again and is alone in
\* a new entry, nothing being reassembled
C27_Witness ==
    /\ history.up # <<>>
    /\ Len(history.up[1].dgrams) > 1
    /\ Len(history.down) = 1
    /\ Len(history.srv_arrivals) = Len(history.up[1].dgrams) + 1
    /\ Len(history.srv_frames) = 1
    /\ rx.prog = "server"
    /\ rx.outcome = "stored"
    /\ ~rx.dup
    /\ Cardinality(DOMAIN srv_buffer[history.up[1].id]) = 1

============================================================================
